---- MODULE Spec2Model ----
(***************************************************************************)
(* Verification model of the picoclaw agent execution core.                *)
(*                                                                         *)
(*   - the concurrent tool batch executor  (ToolRegistry.ExecuteToolCalls) *)
(*   - the provider retry loop             (HTTPProvider.Chat)             *)
(*   - the subagent manager                (SubagentManager)               *)
(*   - the retention of finished subagent tasks  (cleanupLocked)           *)
(*   - the message budget                  (providers.ApplyMessageBudget)  *)
(*   - the iteration loops       (llmloop.Run, AgentLoop.runLLMIteration)  *)
(*   - the message bus                     (bus.MessageBus)                *)
(*   - the status notifier                 (agent.statusNotifier)          *)
(*   - the agent loop and its summarization (AgentLoop)                    *)
(*   - the tool execution policy           (tools.ToolExecutionPolicy)     *)
(*                                                                         *)
(* Each component has its own specification (SpecExec, SpecChat, SpecSub,  *)
(* SpecRet, SpecRun, SpecTurn, SpecBudget, SpecBus, SpecNotif, SpecAgent,  *)
(* SpecPolicy); the variables of the other components stay in their idle   *)
(* state.  FairSpecExec, FairSpecSub and FairSpecNotif add the fairness of *)
(* the Go scheduler for the liveness properties.                           *)
(***************************************************************************)
EXTENDS Integers, Sequences, FiniteSets, TLC

(***************************************************************************)
(* Bounds of the model.                                                    *)
(***************************************************************************)
MaxCalls == 3

\* The k-th call of a batch: tool_call_ids are unique within a batch, tool names
\* may repeat.
ToolCallAt(k) == [id |-> 100 + k, name |-> IF k % 2 = 1 THEN "t1" ELSE "t2"]

Batch(len) == [k \in 1..len |-> ToolCallAt(len + 1 - k)]

Min(a, b) == IF a < b THEN a ELSE b

Max(a, b) == IF a > b THEN a ELSE b

(***************************************************************************)
(* State of one ExecuteToolCalls batch.                                    *)
(***************************************************************************)
VARIABLES
    toolCalls,      \* the input batch: a sequence of tool calls
    optMaxParallel, \* opts.MaxParallel
    optCallback,    \* opts.OnToolComplete != nil
    exCtxDone,      \* ctx.Done() of the batch is closed
    exPc,           \* position of the calling goroutine
    spawned,        \* number of workers started by the for loop
    wPc,            \* position of each worker goroutine
    acquired,       \* the worker's local "acquired"
    panicked,       \* Execute of this worker panicked (recover() != nil)
    sem,            \* number of tokens in the semaphore channel
    doneCh,         \* buffered channel of finished indices
    wg,             \* WaitGroup counter
    results,        \* the results slice
    rpPc,           \* position of the progress reporter goroutine
    completed,      \* the reporter's local "completed"
    callbacks,      \* the OnToolComplete invocations, in order
    exReturned      \* the slice returned by ExecuteToolCalls

execVars == << toolCalls, optMaxParallel, optCallback, exCtxDone, exPc, spawned,
               wPc, acquired, panicked, sem, doneCh, wg, results, rpPc,
               completed, callbacks, exReturned >>

(***************************************************************************)
(* State of one HTTPProvider.Chat call.  Durations are in TimeUnit.        *)
(***************************************************************************)
VARIABLES
    maxRetries,         \* p.maxRetries
    retryBaseWait,      \* p.retryBaseWait
    retryMaxWait,       \* p.retryMaxWait
    retryJitter,        \* p.retryJitter, in percent
    chCtxDone,          \* ctx.Done() of the call is closed
    chPc,               \* position of the goroutine inside Chat
    attempt,            \* loop variable
    lastErr,            \* lastErr
    retryAfterHint,     \* retryAfterHint
    hasRetryAfterHint,  \* hasRetryAfterHint
    retryAfterLog,      \* retryAfterLog: the hint the current wait was computed from
    wait,               \* wait of the current retry
    timerFired,         \* the channel of time.After(wait) is ready
    pending,            \* response returned by doRequest, body not read yet
    lastResp,           \* status and body of the response read by this attempt
    requests,           \* number of doRequest calls
    waits,              \* number of completed retry waits
    cancelObserved,     \* ctx was cancelled during a wait or at a transport-level error
    chRet               \* what Chat returned

chatVars == << maxRetries, retryBaseWait, retryMaxWait, retryJitter, chCtxDone, chPc,
               attempt, lastErr, retryAfterHint, hasRetryAfterHint, retryAfterLog,
               wait, timerFired, pending, lastResp, requests, waits, cancelObserved,
               chRet >>

(***************************************************************************)
(* State of the SubagentManager and of its runTask goroutines.             *)
(***************************************************************************)
VARIABLES
    smTasks,        \* sm.tasks: task number |-> [status, result, finished]
    smCancels,      \* the keys of sm.cancels
    smNextID,       \* sm.nextID
    smBus,          \* sm.bus != nil
    taskPc,         \* position of each runTask goroutine
    callerCtxDone,  \* Done() of the ctx that callers pass to Spawn is closed
    taskBase,       \* baseCtx of each task: the parent of taskCtx
    taskCtxDone,    \* taskCtx.Done() of each task is closed
    taskFinal,      \* runTask's locals finalErr, status and result
    cancelRet,      \* [id, err] of the Cancel call that led to this state, if one did
    cancelCalls,    \* the tasks whose cancel handle Cancel has invoked
    inbound         \* terminal messages handed to bus.PublishInbound, in order

subVars == << smTasks, smCancels, smNextID, smBus, taskPc, callerCtxDone,
              taskBase, taskCtxDone, taskFinal, cancelRet, cancelCalls, inbound >>

(***************************************************************************)
(* Retention settings of the SubagentManager and the wall clock.           *)
(***************************************************************************)
VARIABLES
    smRetention,    \* [configured, maxTasks, completedTTL]
    now             \* time.Now(), in ticks

retVars == << smRetention, now >>

(***************************************************************************)
(* State of one iteration loop: llmloop.Run, or AgentLoop.runLLMIteration  *)
(* with the session it writes to.                                          *)
(***************************************************************************)
VARIABLES
    lpMaxIterations,    \* opts.MaxIterations, al.maxIterations
    lpBudget,           \* opts.MessageBudget
    lpHasExecuteTools,  \* opts.ExecuteTools != nil
    lpMessages,         \* result.Messages of Run, messages of runLLMIteration
    lpSession,          \* the messages of the session, as AddFullMessage appends them
    lpIteration,        \* iteration
    lpPc,               \* position of the goroutine inside the loop
    lpRequest,          \* the last provider call: [messages, tools]
    lpResp,             \* resp / response: the provider's last answer
    lpToolResults,      \* toolResults not yet appended
    lpExhausted,        \* result.Exhausted, exhausted
    lpFinalContent,     \* result.FinalContent, finalContent
    lpCalls,            \* provider calls made inside the for loop
    lpToolResponses,    \* responses of those calls that requested tools
    lpSummaryCalls,     \* final summary calls made
    lpRet               \* the return: [returned, err, iterations]

loopVars == << lpMaxIterations, lpBudget, lpHasExecuteTools, lpMessages, lpSession,
               lpIteration, lpPc, lpRequest, lpResp, lpToolResults, lpExhausted,
               lpFinalContent, lpCalls, lpToolResponses, lpSummaryCalls, lpRet >>

(***************************************************************************)
(* State of one call of providers.ApplyMessageBudget.                      *)
(***************************************************************************)
VARIABLES
    bgMessages,     \* messages: the elements of the caller's slice
    bgBudget,       \* budget
    bgTrimmed,      \* trimmed
    bgShared,       \* trimmed has the backing array of the caller's slice
    bgPc,           \* position inside ApplyMessageBudget
    bgOut           \* the returned messages

budgetVars == << bgMessages, bgBudget, bgTrimmed, bgShared, bgPc, bgOut >>

(***************************************************************************)
(* State of the MessageBus, its publishers, its consumer and its closers.  *)
(***************************************************************************)
VARIABLES
    busCh,          \* the channel in use: mb.inbound or mb.outbound
    busBuf,         \* the buffer of that channel
    busClosed,      \* mb.closed
    busDone,        \* mb.done is closed
    busWriter,      \* mb.mu: "none", or a Lock() that is "pending" or "held"
    busReaders,     \* mb.mu: the publishers holding RLock
    busOnce,        \* mb.closeOnce: "fresh", "running" or "done"
    busPanic,       \* a call panicked
    pubPc,          \* position of each publisher
    pubSeq,         \* number of Publish calls of each publisher
    csPc,           \* position of the consumer
    csCtxDone,      \* ctx.Done() of the consumer is closed
    csCall,         \* the consumer's current call: [afterClose, by, msg]
    csRet,          \* the return of the step just taken: [ok, msg, afterClose, parked, by]
    clPc,           \* position of each caller of Close
    busCloseReturned,   \* a call of Close has returned
    busLast         \* per publisher: the number of its last message received

busVars == << busCh, busBuf, busClosed, busDone, busWriter, busReaders, busOnce,
              busPanic, pubPc, pubSeq, csPc, csCtxDone, csCall, csRet,
              clPc, busCloseReturned, busLast >>

(***************************************************************************)
(* State of one statusNotifier, its timers, its loop goroutines and the    *)
(* wall clock they run against.                                            *)
(***************************************************************************)
VARIABLES
    snDelay,        \* sn.delay, in clock ticks
    snNow,          \* the wall clock
    snTimer,        \* sn.timer: 0 is nil, k > 0 the k-th timer created
    snTimers,       \* the timers created by start: armed, deadline, C (0 or 1 value buffered)
    snStopped,      \* sn.stopped
    snDone,         \* sn.done is closed
    snPanic,        \* the panic that ended the process, "none" if none
    snLoops,        \* the loop goroutines: position and the timer their select waits on
    snOps,          \* number of start / reset / stop calls made
    snOp,           \* the call made by the step just taken, "none" for other steps
    snLast,         \* time of the most recent start, effective reset or status message
    snSent          \* number of status messages published (counted up to MaxSent)

notifVars == << snDelay, snNow, snTimer, snTimers, snStopped, snDone, snPanic,
                snLoops, snOps, snOp, snLast, snSent >>

(***************************************************************************)
(* State of the AgentLoop: the goroutine of Run working through inbound    *)
(* messages, the session store it writes to, and the summarization         *)
(* goroutines it starts.                                                   *)
(***************************************************************************)
VARIABLES
    agContextWindow, \* al.contextWindow
    agMaxIterations, \* al.maxIterations
    agSessions,      \* the session store: the history of each session
    agSummary,       \* the session store: whether the session has a summary
    agNextId,        \* identity of the next message written to a session
    agConsumed,      \* number of inbound messages consumed by Run
    agPc,            \* position of the goroutine of Run
    agMsg,           \* the inbound message being processed
    agOpts,          \* the processOptions of the running runAgentLoop
    agIter,          \* runLLMIteration's iteration
    agPending,       \* tool results of the iteration not yet written
    agFinal,         \* finalContent
    agErr,           \* the error runAgentLoop returns
    agOut,           \* outbound messages published for the current inbound message
    agWrites,        \* what the running runAgentLoop wrote: user and final messages, provider calls
    agSummarizing,   \* al.summarizing: the session keys stored in the sync.Map
    agSumm,          \* the summarization goroutines: session, position, history snapshot
    agSumStarted     \* number of summarizations started per session (counted up to MaxSummaries)

agentVars == << agContextWindow, agMaxIterations, agSessions, agSummary, agNextId,
                agConsumed, agPc, agMsg, agOpts, agIter, agPending, agFinal, agErr,
                agOut, agWrites, agSummarizing, agSumm, agSumStarted >>

(***************************************************************************)
(* State of the tool execution policy: a policy as NewToolExecutionPolicy  *)
(* builds it and the last call of its check.                               *)
(***************************************************************************)
VARIABLES
    plPolicy,       \* the ToolExecutionPolicy: Enabled, Allow, Deny
    plToolName,     \* the toolName of the last check
    plErr           \* the error the last check returned, "unchecked" before the first

policyVars == << plPolicy, plToolName, plErr >>

vars == << execVars, chatVars, subVars, retVars, loopVars, budgetVars, busVars, notifVars, agentVars, policyVars >>

nonExecVars == << chatVars, subVars, retVars, loopVars, budgetVars, busVars, notifVars, agentVars, policyVars >>

nonChatVars == << execVars, subVars, retVars, loopVars, budgetVars, busVars, notifVars, agentVars, policyVars >>

nonSubVars == << execVars, chatVars, retVars, loopVars, budgetVars, busVars, notifVars, agentVars, policyVars >>

nonLoopVars == << execVars, chatVars, subVars, retVars, budgetVars, busVars, notifVars, agentVars, policyVars >>

nonBudgetVars == << execVars, chatVars, subVars, retVars, loopVars, busVars, notifVars, agentVars, policyVars >>

nonBusVars == << execVars, chatVars, subVars, retVars, loopVars, budgetVars, notifVars, agentVars, policyVars >>

nonNotifVars == << execVars, chatVars, subVars, retVars, loopVars, budgetVars, busVars, agentVars, policyVars >>

nonAgentVars == << execVars, chatVars, subVars, retVars, loopVars, budgetVars, busVars, notifVars, policyVars >>

nonPolicyVars == << execVars, chatVars, subVars, retVars, loopVars, budgetVars, busVars, notifVars, agentVars >>


n == Len(toolCalls)

EmptyMessage == [role |-> "", tool_call_id |-> "", content |-> << >>]

ToolResultMessage(id, content) ==
    [role |-> "tool", tool_call_id |-> id, content |-> content]

\* Variant: the limit ignores opts.MaxParallel.
ParallelLimitIgnoresOption == n

\* parallelLimit := n; if opts.MaxParallel > 0 && opts.MaxParallel < parallelLimit { ... }
ParallelLimit ==
    IF optMaxParallel > 0 /\ optMaxParallel < n THEN optMaxParallel ELSE n

InFlight == Cardinality({ i \in 1..n : wPc[i] = "executing" })

NoResponse == [status |-> 0, header |-> [form |-> "none", val |-> 0], body |-> "none"]

NoReturn == [kind |-> "none", attempts |-> 0, status |-> 0, cause |-> "nil"]

\* no Chat call is in progress
ChatIdle ==
    /\ maxRetries = 0
    /\ retryBaseWait = 0
    /\ retryMaxWait = 0
    /\ retryJitter = 0
    /\ chCtxDone = FALSE
    /\ chPc = "idle"
    /\ attempt = 0
    /\ lastErr = "nil"
    /\ retryAfterHint = 0
    /\ hasRetryAfterHint = FALSE
    /\ retryAfterLog = -1
    /\ wait = 0
    /\ timerFired = FALSE
    /\ pending = NoResponse
    /\ lastResp = NoResponse
    /\ requests = 0
    /\ waits = 0
    /\ cancelObserved = FALSE
    /\ chRet = NoReturn

\* the last step was not a return of Cancel
NoCancel == [id |-> 0, err |-> "none"]

\* a manager on which ConfigureRetention was never called
NoRetention == [configured |-> FALSE, maxTasks |-> 0, completedTTL |-> 0]

\* a manager without tasks
SubIdle ==
    /\ smTasks = << >>
    /\ smCancels = {}
    /\ smNextID = 1
    /\ taskPc = << >>
    /\ taskCtxDone = << >>
    /\ taskFinal = << >>
    /\ inbound = << >>
    /\ smBus = FALSE
    /\ callerCtxDone = FALSE
    /\ taskBase = << >>
    /\ cancelRet = NoCancel
    /\ cancelCalls = {}

\* retention was never configured and the clock stands
RetIdle ==
    /\ smRetention = NoRetention
    /\ now = 0

\* a budget without limits: MessageBudget{}
NoBudget ==
    [MaxMessages |-> 0, MaxTotalChars |-> 0, MaxMessageChars |-> 0,
     MaxToolMessageChars |-> 0, TruncationMarker |-> << >>]

\* no provider call was made yet
NoRequest == [messages |-> << >>, tools |-> "none"]

\* no response was received yet
NoLLMResponse == [err |-> FALSE, content |-> << >>, tool_calls |-> << >>]

\* the loop has not returned
NoLoopReturn == [returned |-> FALSE, err |-> FALSE, iterations |-> 0]

Publishers == {1, 2}

Closers == {1, 2}

Channels == {"inbound", "outbound"}

NoConsume ==
    [ok |-> FALSE, msg |-> 0, afterClose |-> FALSE, parked |-> FALSE, by |-> "none"]

NoCall == [afterClose |-> FALSE, by |-> "none", msg |-> 0]

\* NewMessageBus(): empty channels, not closed, nobody calling
BusFresh ==
    /\ busBuf = << >>
    /\ busClosed = FALSE
    /\ busDone = FALSE
    /\ busWriter = "none"
    /\ busReaders = {}
    /\ busOnce = "fresh"
    /\ busPanic = FALSE
    /\ pubPc = [p \in Publishers |-> "idle"]
    /\ pubSeq = [p \in Publishers |-> 0]
    /\ csPc = "idle"
    /\ csCtxDone = FALSE
    /\ csCall = NoCall
    /\ csRet = NoConsume
    /\ clPc = [k \in Closers |-> "idle"]
    /\ busCloseReturned = FALSE
    /\ busLast = [p \in Publishers |-> 0]

Sessions == {"telegram:chat1", "cli:direct"}

NoInbound == [channel |-> "", sender |-> "", event |-> "", session |-> ""]

NoOpts == [SessionKey |-> "", DefaultResponse |-> "", EnableSummary |-> FALSE,
           SendResponse |-> FALSE]

NoWrites == [user |-> 0, final |-> 0, calls |-> 0, userBeforeCall |-> TRUE]

\* an AgentLoop that has consumed nothing, with empty sessions
AgentFresh ==
    /\ agSummary = [k \in Sessions |-> FALSE]
    /\ agConsumed = 0
    /\ agPc = "consume"
    /\ agMsg = NoInbound
    /\ agOpts = NoOpts
    /\ agIter = 0
    /\ agPending = 0
    /\ agFinal = ""
    /\ agErr = FALSE
    /\ agOut = 0
    /\ agWrites = NoWrites
    /\ agSummarizing = {}
    /\ agSumm = << >>
    /\ agSumStarted = [k \in Sessions |-> 0]

\* no AgentLoop is in use
AgentIdle ==
    /\ agContextWindow = 0
    /\ agMaxIterations = 0
    /\ agSessions = [k \in Sessions |-> << >>]
    /\ agNextId = 1
    /\ AgentFresh

\* a notifier as newStatusNotifier returns it, with no call made on it
NotifFresh ==
    /\ snNow = 0
    /\ snTimer = 0
    /\ snTimers = << >>
    /\ snStopped = FALSE
    /\ snDone = FALSE
    /\ snPanic = "none"
    /\ snLoops = << >>
    /\ snOps = 0
    /\ snOp = "none"
    /\ snLast = 0
    /\ snSent = 0

\* no notifier is in use
NotifIdle == snDelay = 0 /\ NotifFresh

\* no policy is in use: the zero ToolExecutionPolicy, not consulted
PolicyIdle ==
    /\ plPolicy = [Enabled |-> FALSE, Allow |-> {}, Deny |-> {}]
    /\ plToolName = << >>
    /\ plErr = "unchecked"

\* the bus is not in use
BusIdle == busCh = "inbound" /\ BusFresh

\* no budgeting call is in progress
BudgetIdle ==
    /\ bgMessages = << >>
    /\ bgBudget = NoBudget
    /\ bgTrimmed = << >>
    /\ bgShared = FALSE
    /\ bgPc = "idle"
    /\ bgOut = << >>

\* no loop is in progress
LoopIdle ==
    /\ lpMaxIterations = 0
    /\ lpBudget = NoBudget
    /\ lpHasExecuteTools = FALSE
    /\ lpMessages = << >>
    /\ lpSession = << >>
    /\ lpIteration = 0
    /\ lpPc = "idle"
    /\ lpRequest = NoRequest
    /\ lpResp = NoLLMResponse
    /\ lpToolResults = << >>
    /\ lpExhausted = FALSE
    /\ lpFinalContent = << >>
    /\ lpCalls = 0
    /\ lpToolResponses = 0
    /\ lpSummaryCalls = 0
    /\ lpRet = NoLoopReturn

\* no batch is in progress
ExecIdle ==
    /\ toolCalls = << >>
    /\ optMaxParallel = 0
    /\ optCallback = FALSE
    /\ exCtxDone = FALSE
    /\ exPc = "idle"
    /\ spawned = 0
    /\ wPc = << >>
    /\ acquired = << >>
    /\ panicked = << >>
    /\ sem = 0
    /\ doneCh = << >>
    /\ wg = 0
    /\ results = << >>
    /\ rpPc = "unborn"
    /\ completed = 0
    /\ callbacks = << >>
    /\ exReturned = << >>

InitExec ==
    /\ PolicyIdle
    /\ AgentIdle
    /\ NotifIdle
    /\ BusIdle
    /\ BudgetIdle
    /\ LoopIdle
    /\ ChatIdle
    /\ SubIdle
    /\ RetIdle
    /\ toolCalls \in { Batch(len) : len \in 0..MaxCalls }
    /\ optMaxParallel \in -1..MaxCalls
    /\ optCallback \in BOOLEAN
    /\ exCtxDone \in BOOLEAN
    /\ exPc = "entry"
    /\ spawned = 0
    /\ wPc = [i \in 1..Len(toolCalls) |-> "unborn"]
    /\ acquired = [i \in 1..Len(toolCalls) |-> FALSE]
    /\ panicked = [i \in 1..Len(toolCalls) |-> FALSE]
    /\ sem = 0
    /\ doneCh = << >>
    /\ wg = 0
    /\ results = [i \in 1..Len(toolCalls) |-> EmptyMessage]
    /\ rpPc = "unborn"
    /\ completed = 0
    /\ callbacks = << >>
    /\ exReturned = << >>

\* if n == 0 { return nil }
ExReturnNil ==
    /\ UNCHANGED nonExecVars
    /\ exPc = "entry"
    /\ n = 0
    /\ exPc' = "returned"
    /\ exReturned' = << >>
    /\ UNCHANGED << toolCalls, optMaxParallel, optCallback, exCtxDone, spawned, wPc,
                    acquired, panicked, sem, doneCh, wg, results, rpPc, completed,
                    callbacks >>

\* for i, tc := range toolCalls { wg.Add(1); go func(idx, tc) {...}(i, tc) }
ExSpawn ==
    /\ UNCHANGED nonExecVars
    /\ exPc \in {"entry", "spawn"}
    /\ spawned < n
    /\ spawned' = spawned + 1
    /\ wg' = wg + 1
    /\ wPc' = [wPc EXCEPT ![spawned + 1] = "select"]
    /\ exPc' = "spawn"
    /\ UNCHANGED << toolCalls, optMaxParallel, optCallback, exCtxDone, acquired,
                    panicked, sem, doneCh, results, rpPc, completed, callbacks,
                    exReturned >>

\* progressDone := make(chan struct{}); go func() {...}()
ExStartReporter ==
    /\ UNCHANGED nonExecVars
    /\ exPc = "spawn"
    /\ spawned = n
    /\ rpPc' = "recv"
    /\ exPc' = "wgwait"
    /\ UNCHANGED << toolCalls, optMaxParallel, optCallback, exCtxDone, spawned, wPc,
                    acquired, panicked, sem, doneCh, wg, results, completed,
                    callbacks, exReturned >>

\* wg.Wait()
ExWgWait ==
    /\ UNCHANGED nonExecVars
    /\ exPc = "wgwait"
    /\ wg = 0
    /\ exPc' = "progresswait"
    /\ UNCHANGED << toolCalls, optMaxParallel, optCallback, exCtxDone, spawned, wPc,
                    acquired, panicked, sem, doneCh, wg, results, rpPc, completed,
                    callbacks, exReturned >>

\* Variant: the batch returns after wg.Wait() without waiting for progressDone.
ExReturnWithoutProgressWait ==
    /\ UNCHANGED nonExecVars
    /\ exPc = "progresswait"
    /\ exPc' = "returned"
    /\ exReturned' = results
    /\ UNCHANGED << toolCalls, optMaxParallel, optCallback, exCtxDone, spawned, wPc,
                    acquired, panicked, sem, doneCh, wg, results, rpPc, completed,
                    callbacks >>

\* <-progressDone; return results
ExReturn ==
    /\ UNCHANGED nonExecVars
    /\ exPc = "progresswait"
    /\ rpPc = "closed"
    /\ exPc' = "returned"
    /\ exReturned' = results
    /\ UNCHANGED << toolCalls, optMaxParallel, optCallback, exCtxDone, spawned, wPc,
                    acquired, panicked, sem, doneCh, wg, results, rpPc, completed,
                    callbacks >>

\* Variant: the worker takes a slot without recording that it holds one.
WorkerAcquireWithoutFlag(i) ==
    /\ UNCHANGED nonExecVars
    /\ wPc[i] = "select"
    /\ sem < ParallelLimit
    /\ sem' = sem + 1
    /\ wPc' = [wPc EXCEPT ![i] = "executing"]
    /\ UNCHANGED << toolCalls, optMaxParallel, optCallback, exCtxDone, exPc, spawned,
                    acquired, panicked, doneCh, wg, results, rpPc, completed, callbacks,
                    exReturned >>

\* select { case sem <- struct{}{}: acquired = true ... } followed by the call of
\* r.ExecuteWithContext
WorkerAcquire(i) ==
    /\ UNCHANGED nonExecVars
    /\ wPc[i] = "select"
    /\ sem < ParallelLimit
    /\ sem' = sem + 1
    /\ acquired' = [acquired EXCEPT ![i] = TRUE]
    /\ wPc' = [wPc EXCEPT ![i] = "executing"]
    /\ UNCHANGED << toolCalls, optMaxParallel, optCallback, exCtxDone, exPc, spawned,
                    panicked, doneCh, wg, results, rpPc, completed, callbacks,
                    exReturned >>

\* Variant: the cancellation case returns without storing a result.
WorkerCtxDoneStoresNothing(i) ==
    /\ UNCHANGED nonExecVars
    /\ wPc[i] = "select"
    /\ exCtxDone
    /\ wPc' = [wPc EXCEPT ![i] = "deferred"]
    /\ UNCHANGED << toolCalls, optMaxParallel, optCallback, exCtxDone, exPc, spawned,
                    acquired, panicked, sem, doneCh, wg, results, rpPc, completed,
                    callbacks, exReturned >>

\* select { ... case <-ctx.Done(): results[idx] = ToolResultMessage(tc.ID, "Error: ctx.Err()"); return }
WorkerCtxDone(i) ==
    /\ UNCHANGED nonExecVars
    /\ wPc[i] = "select"
    /\ exCtxDone
    /\ results' = [results EXCEPT ![i] =
                       ToolResultMessage(toolCalls[i].id, <<"Error", "context canceled">>)]
    /\ wPc' = [wPc EXCEPT ![i] = "deferred"]
    /\ UNCHANGED << toolCalls, optMaxParallel, optCallback, exCtxDone, exPc, spawned,
                    acquired, panicked, sem, doneCh, wg, rpPc, completed, callbacks,
                    exReturned >>

\* Variant: the worker closure reads the loop variable of the spawning loop
\* instead of its own copy of tc.
WorkerExecuteEndsSharedLoopVar(i) ==
    /\ UNCHANGED nonExecVars
    /\ wPc[i] = "executing"
    /\ \E outcome \in {"ok", "err", "panic"} :
         /\ results' = IF outcome = "panic" THEN results
                       ELSE [results EXCEPT ![i] =
                               ToolResultMessage(toolCalls[spawned].id,
                                   IF outcome = "ok" THEN <<"result", toolCalls[spawned].name>>
                                   ELSE <<"Error", toolCalls[spawned].name>>)]
         /\ panicked' = [panicked EXCEPT ![i] = (outcome = "panic")]
    /\ wPc' = [wPc EXCEPT ![i] = "deferred"]
    /\ UNCHANGED << toolCalls, optMaxParallel, optCallback, exCtxDone, exPc, spawned,
                    acquired, sem, doneCh, wg, rpPc, completed, callbacks,
                    exReturned >>

\* result, err := r.ExecuteWithContext(...); if err != nil { result = "Error: ..." }
\* results[idx] = ToolResultMessage(tc.ID, result)        -- or Execute panics
WorkerExecuteEnds(i) ==
    /\ UNCHANGED nonExecVars
    /\ wPc[i] = "executing"
    /\ \E outcome \in {"ok", "err", "panic"} :
         /\ results' = IF outcome = "panic" THEN results
                       ELSE [results EXCEPT ![i] =
                               ToolResultMessage(toolCalls[i].id,
                                   IF outcome = "ok" THEN <<"result", toolCalls[i].name>>
                                   ELSE <<"Error", toolCalls[i].name>>)]
         /\ panicked' = [panicked EXCEPT ![i] = (outcome = "panic")]
    /\ wPc' = [wPc EXCEPT ![i] = "deferred"]
    /\ UNCHANGED << toolCalls, optMaxParallel, optCallback, exCtxDone, exPc, spawned,
                    acquired, sem, doneCh, wg, rpPc, completed, callbacks,
                    exReturned >>

\* Variant: the deferred function recovers the panic but stores no result.
WorkerDeferredDropsPanic(i) ==
    /\ UNCHANGED nonExecVars
    /\ wPc[i] = "deferred"
    /\ sem' = IF acquired[i] THEN sem - 1 ELSE sem
    /\ wPc' = [wPc EXCEPT ![i] = "signal"]
    /\ UNCHANGED << toolCalls, optMaxParallel, optCallback, exCtxDone, exPc, spawned,
                    acquired, panicked, doneCh, wg, results, rpPc, completed, callbacks,
                    exReturned >>

\* defer func() { if acquired { <-sem }; if rec := recover(); rec != nil {
\*     results[idx] = ToolResultMessage(tc.ID, "Error: tool X panicked: ...") } ...
WorkerDeferred(i) ==
    /\ UNCHANGED nonExecVars
    /\ wPc[i] = "deferred"
    /\ sem' = IF acquired[i] THEN sem - 1 ELSE sem
    /\ results' = IF panicked[i]
                  THEN [results EXCEPT ![i] =
                          ToolResultMessage(toolCalls[i].id,
                              <<"Error: tool panicked", toolCalls[i].name>>)]
                  ELSE results
    /\ wPc' = [wPc EXCEPT ![i] = "signal"]
    /\ UNCHANGED << toolCalls, optMaxParallel, optCallback, exCtxDone, exPc, spawned,
                    acquired, panicked, doneCh, wg, rpPc, completed, callbacks,
                    exReturned >>

\* ... doneCh <- idx; wg.Done() }()   (doneCh has capacity n: the send never blocks)
WorkerSignal(i) ==
    /\ UNCHANGED nonExecVars
    /\ wPc[i] = "signal"
    /\ Len(doneCh) < n
    /\ doneCh' = Append(doneCh, i)
    /\ wg' = wg - 1
    /\ wPc' = [wPc EXCEPT ![i] = "exit"]
    /\ UNCHANGED << toolCalls, optMaxParallel, optCallback, exCtxDone, exPc, spawned,
                    acquired, panicked, sem, results, rpPc, completed, callbacks,
                    exReturned >>

\* for range n { idx := <-doneCh; completed++; if opts.OnToolComplete != nil {...} }
\* and, after the n-th signal, defer close(progressDone)
ReporterRecv ==
    /\ UNCHANGED nonExecVars
    /\ rpPc = "recv"
    /\ doneCh # << >>
    /\ LET idx == Head(doneCh)
       IN  /\ doneCh' = Tail(doneCh)
           /\ completed' = completed + 1
           /\ callbacks' = IF optCallback
                           THEN Append(callbacks,
                                   [completed |-> completed + 1, total |-> n, index |-> idx,
                                    call |-> toolCalls[idx], result |-> results[idx]])
                           ELSE callbacks
           /\ rpPc' = IF completed + 1 = n THEN "closed" ELSE "recv"
    /\ UNCHANGED << toolCalls, optMaxParallel, optCallback, exCtxDone, exPc, spawned,
                    wPc, acquired, panicked, sem, wg, results, exReturned >>

\* the caller (or a timeout above it) cancels ctx while the batch runs
ExCancelCtx ==
    /\ UNCHANGED nonExecVars
    /\ exPc \in {"spawn", "wgwait", "progresswait"}
    /\ ~exCtxDone
    /\ exCtxDone' = TRUE
    /\ UNCHANGED << toolCalls, optMaxParallel, optCallback, exPc, spawned, wPc,
                    acquired, panicked, sem, doneCh, wg, results, rpPc, completed,
                    callbacks, exReturned >>

NextExec ==
    \/ ExReturnNil
    \/ ExSpawn
    \/ ExStartReporter
    \/ ExWgWait
    \/ ExReturn
    \/ \E i \in 1..n : WorkerAcquire(i)
    \/ \E i \in 1..n : WorkerCtxDone(i)
    \/ \E i \in 1..n : WorkerExecuteEnds(i)
    \/ \E i \in 1..n : WorkerDeferred(i)
    \/ \E i \in 1..n : WorkerSignal(i)
    \/ ReporterRecv
    \/ ExCancelCtx

SpecExec == InitExec /\ [][NextExec]_vars

\* the steps of the goroutine that called ExecuteToolCalls
CallerStep == ExReturnNil \/ ExSpawn \/ ExStartReporter \/ ExWgWait \/ ExReturn

\* the steps of the worker goroutine of call i
WorkerStep(i) ==
    /\ i \in 1..n
    /\ \/ WorkerAcquire(i)
       \/ WorkerCtxDone(i)
       \/ WorkerExecuteEnds(i)
       \/ WorkerDeferred(i)
       \/ WorkerSignal(i)

\* The batch under a fair scheduler: a goroutine that can take a step
\* eventually takes one, and every started Execute returns or panics.  The
\* cancellation of ctx is left to the caller and may never happen.
FairSpecExec ==
    /\ SpecExec
    /\ WF_vars(CallerStep)
    /\ \A i \in 1..MaxCalls : WF_vars(WorkerStep(i))
    /\ WF_vars(ReporterRecv)

(***************************************************************************)
(* HTTPProvider.Chat: the retry loop.                                      *)
(* Durations are integers in units of 10 microseconds.                     *)
(***************************************************************************)
Millisecond == 100

Second == 1000 * Millisecond

defaultMaxRetries == 5

defaultRetryBaseWait == 1 * Second

defaultRetryMaxWait == 60 * Second

defaultRetryJitter == 20

\* The retry settings the provider is run with: NewHTTPProvider's defaults and
\* the settings of newTestProvider and of the retry tests.
RetryConfigs ==
    { [base |-> defaultRetryBaseWait, max |-> defaultRetryMaxWait, jitter |-> defaultRetryJitter],
      [base |-> 1 * Millisecond, max |-> 10 * Millisecond, jitter |-> 0],
      [base |-> 1 * Millisecond, max |-> 2 * Second, jitter |-> 0],
      [base |-> 100 * Millisecond, max |-> 5 * Second, jitter |-> 90] }

\* Values of p.randFloat(), doubled: 0, 1/2 and (the tests' upper end) 1.
RandFloatsTimes2 == {0, 1, 2}

\* Retry-After headers: absent, unparsable, delta-seconds, HTTP-date (val is
\* the distance of the date from now).
RetryAfterHeaders ==
    { [form |-> "none", val |-> 0],
      [form |-> "invalid", val |-> 0],
      [form |-> "secs", val |-> -5],
      [form |-> "secs", val |-> 1],
      [form |-> "secs", val |-> 120],
      [form |-> "date", val |-> -3 * Second],
      [form |-> "date", val |-> 2 * Second] }

ErrorBodies == {"user_not_found_json", "user_not_found_text", "other"}

\* Bodies of HTTP 200 responses: what parseResponse can be given.
OkBodies ==
    { "invalid_json", "no_choices", "empty_content", "content", "tool_calls",
      "content_finish_error", "content_finish_ERROR" }

Statuses == {200, 400, 401, 404, 429, 503}

Responses ==
    { [status |-> st, header |-> h, body |-> b] :
          st \in Statuses \ {200}, h \in RetryAfterHeaders, b \in ErrorBodies }
    \cup
    { [status |-> 200, header |-> h, body |-> b] :
          h \in { [form |-> "none", val |-> 0], [form |-> "secs", val |-> 120] },
          b \in OkBodies }

RECURSIVE Pow2(_)
Pow2(k) == IF k <= 0 THEN 1 ELSE 2 * Pow2(k - 1)

\* Variant: jitter is applied whether or not there is a Retry-After hint.
computeRetryWaitAlwaysJitters(att, hint, hasHint, rf2) ==
    LET backoff == Min(retryBaseWait * Pow2(att - 1), retryMaxWait)
        factor0 == 100 + (rf2 - 1) * retryJitter
        factor  == IF factor0 < 0 THEN 0 ELSE factor0
        scaled  == (backoff * factor) \div 100
        floored == IF scaled <= 0 THEN Millisecond ELSE scaled
        jittered == IF retryJitter > 0 THEN Min(floored, retryMaxWait) ELSE backoff
        retryAfter == Min(Max(hint, 0), retryMaxWait)
    IN  IF hasHint /\ retryAfter > jittered THEN retryAfter ELSE jittered

\* computeRetryWait(attempt, retryAfterHint, hasRetryAfterHint); rf2 is twice the
\* value p.randFloat() returns.
computeRetryWait(att, hint, hasHint, rf2) ==
    LET backoff == Min(retryBaseWait * Pow2(att - 1), retryMaxWait)
        factor0 == 100 + (rf2 - 1) * retryJitter
        factor  == IF factor0 < 0 THEN 0 ELSE factor0
        scaled  == (backoff * factor) \div 100
        floored == IF scaled <= 0 THEN Millisecond ELSE scaled
        jittered == IF ~hasHint /\ retryJitter > 0
                    THEN Min(floored, retryMaxWait)
                    ELSE backoff
        retryAfter == Min(Max(hint, 0), retryMaxWait)
    IN  IF hasHint /\ retryAfter > jittered THEN retryAfter ELSE jittered

\* Variant: every non-OK status is retried.
isRetryableHTTPErrorRetriesAll(statusCode, body) == TRUE

\* isRetryableHTTPError(statusCode, body)
isRetryableHTTPError(statusCode, body) ==
    \/ statusCode = 429
    \/ statusCode >= 500
    \/ /\ statusCode = 401
       /\ body \in {"user_not_found_json", "user_not_found_text"}

\* parseRetryAfterHeader(header): << duration, ok >>
parseRetryAfterHeader(header) ==
    CASE header.form = "secs" ->
             IF header.val <= 0 THEN << 0, TRUE >> ELSE << header.val * Second, TRUE >>
      [] header.form = "date" ->
             << Max(header.val, 0), TRUE >>
      [] OTHER -> << 0, FALSE >>

\* parseResponse(body): the LLMResponse, or err for a body that is not JSON
parseResponse(body) ==
    CASE body = "invalid_json" -> [err |-> TRUE, content |-> "", toolCalls |-> 0, finish |-> ""]
      [] body = "no_choices" -> [err |-> FALSE, content |-> "", toolCalls |-> 0, finish |-> "stop"]
      [] body = "empty_content" -> [err |-> FALSE, content |-> "", toolCalls |-> 0, finish |-> "stop"]
      [] body = "content" -> [err |-> FALSE, content |-> "text", toolCalls |-> 0, finish |-> "stop"]
      [] body = "tool_calls" -> [err |-> FALSE, content |-> "", toolCalls |-> 1, finish |-> "tool_calls"]
      [] body = "content_finish_error" ->
             [err |-> FALSE, content |-> "text", toolCalls |-> 0, finish |-> "error"]
      [] OTHER -> [err |-> FALSE, content |-> "text", toolCalls |-> 0, finish |-> "ERROR"]

\* Variant: a response without tool calls is retried even if it has content.
shouldRetryIgnoresContent(llmResp) ==
    \/ llmResp.finish \in {"error", "ERROR"}
    \/ llmResp.toolCalls = 0

\* shouldRetry(resp): strings.EqualFold(resp.FinishReason, "error"), or no
\* content and no tool calls
shouldRetry(llmResp) ==
    \/ llmResp.finish \in {"error", "ERROR"}
    \/ llmResp.content = "" /\ llmResp.toolCalls = 0

\* A Chat call has been entered with a configured apiBase and a request body
\* that marshals.
InitChat ==
    /\ PolicyIdle
    /\ AgentIdle
    /\ NotifIdle
    /\ BusIdle
    /\ BudgetIdle
    /\ LoopIdle
    /\ ExecIdle
    /\ SubIdle
    /\ RetIdle
    /\ maxRetries = defaultMaxRetries
    /\ \E c \in RetryConfigs :
         /\ retryBaseWait = c.base
         /\ retryMaxWait = c.max
         /\ retryJitter = c.jitter
    /\ chCtxDone \in BOOLEAN
    /\ chPc = "loop"
    /\ attempt = 0
    /\ lastErr = "nil"
    /\ retryAfterHint = 0
    /\ hasRetryAfterHint = FALSE
    /\ retryAfterLog = -1
    /\ wait = 0
    /\ timerFired = FALSE
    /\ pending = NoResponse
    /\ lastResp = NoResponse
    /\ requests = 0
    /\ waits = 0
    /\ cancelObserved = FALSE
    /\ chRet = NoReturn

\* Variant: the loop condition is attempt < p.maxRetries.
ChatLoopOneAttemptShort ==
    /\ UNCHANGED nonChatVars
    /\ chPc = "loop"
    /\ IF attempt >= maxRetries
       THEN /\ chPc' = "returned"
            /\ chRet' = [kind |-> "exhausted", attempts |-> maxRetries + 1,
                         status |-> 0, cause |-> lastErr]
            /\ UNCHANGED << wait, timerFired, retryAfterLog, hasRetryAfterHint,
                            cancelObserved >>
       ELSE IF attempt > 0
       THEN \E rf2 \in RandFloatsTimes2 :
              /\ wait' = computeRetryWait(attempt, retryAfterHint, hasRetryAfterHint, rf2)
              /\ retryAfterLog' = IF hasRetryAfterHint THEN retryAfterHint ELSE -1
              /\ hasRetryAfterHint' = FALSE
              /\ timerFired' = (wait' <= 0)
              /\ cancelObserved' = (cancelObserved \/ chCtxDone)
              /\ chPc' = "wait"
              /\ UNCHANGED chRet
       ELSE /\ chPc' = "request"
            /\ UNCHANGED << wait, timerFired, retryAfterLog, hasRetryAfterHint,
                            cancelObserved, chRet >>
    /\ UNCHANGED << maxRetries, retryBaseWait, retryMaxWait, retryJitter, chCtxDone,
                    attempt, lastErr, retryAfterHint, pending, lastResp, requests,
                    waits >>

\* for attempt := 0; attempt <= p.maxRetries; attempt++ { if attempt > 0 {
\*     wait := p.computeRetryWait(...); hasRetryAfterHint = false; ... select
\* and, after the loop, the retry-exhausted error
ChatLoop ==
    /\ UNCHANGED nonChatVars
    /\ chPc = "loop"
    /\ IF attempt > maxRetries
       THEN /\ chPc' = "returned"
            /\ chRet' = [kind |-> "exhausted", attempts |-> maxRetries + 1,
                         status |-> 0, cause |-> lastErr]
            /\ UNCHANGED << wait, timerFired, retryAfterLog, hasRetryAfterHint,
                            cancelObserved >>
       ELSE IF attempt > 0
       THEN \E rf2 \in RandFloatsTimes2 :
              /\ wait' = computeRetryWait(attempt, retryAfterHint, hasRetryAfterHint, rf2)
              /\ retryAfterLog' = IF hasRetryAfterHint THEN retryAfterHint ELSE -1
              /\ hasRetryAfterHint' = FALSE
              /\ timerFired' = (wait' <= 0)
              /\ cancelObserved' = (cancelObserved \/ chCtxDone)
              /\ chPc' = "wait"
              /\ UNCHANGED chRet
       ELSE /\ chPc' = "request"
            /\ UNCHANGED << wait, timerFired, retryAfterLog, hasRetryAfterHint,
                            cancelObserved, chRet >>
    /\ UNCHANGED << maxRetries, retryBaseWait, retryMaxWait, retryJitter, chCtxDone,
                    attempt, lastErr, retryAfterHint, pending, lastResp, requests,
                    waits >>

\* the timer of time.After(wait) expires
ChatTimerFires ==
    /\ UNCHANGED nonChatVars
    /\ chPc = "wait"
    /\ ~timerFired
    /\ timerFired' = TRUE
    /\ UNCHANGED << maxRetries, retryBaseWait, retryMaxWait, retryJitter, chCtxDone,
                    chPc, attempt, lastErr, retryAfterHint, hasRetryAfterHint,
                    retryAfterLog, wait, pending, lastResp, requests, waits,
                    cancelObserved, chRet >>

\* select { case <-ctx.Done(): return nil, "context cancelled during retry wait: %w" ...
ChatWaitCancelled ==
    /\ UNCHANGED nonChatVars
    /\ chPc = "wait"
    /\ chCtxDone
    /\ chPc' = "returned"
    /\ chRet' = [kind |-> "ctxWait", attempts |-> 0, status |-> 0, cause |-> "ctx"]
    /\ UNCHANGED << maxRetries, retryBaseWait, retryMaxWait, retryJitter, chCtxDone,
                    attempt, lastErr, retryAfterHint, hasRetryAfterHint,
                    retryAfterLog, wait, timerFired, pending, lastResp, requests,
                    waits, cancelObserved >>

\* select { ... case <-time.After(wait): }
ChatWaitElapsed ==
    /\ UNCHANGED nonChatVars
    /\ chPc = "wait"
    /\ timerFired
    /\ chPc' = "request"
    /\ waits' = waits + 1
    /\ wait' = 0
    /\ retryAfterLog' = -1
    /\ timerFired' = FALSE
    /\ UNCHANGED << maxRetries, retryBaseWait, retryMaxWait, retryJitter, chCtxDone,
                    attempt, lastErr, retryAfterHint, hasRetryAfterHint, pending,
                    lastResp, requests, cancelObserved, chRet >>

\* resp, err := p.doRequest(ctx, jsonData); if err != nil { lastErr = err;
\*     hasRetryAfterHint = false; if ctx.Err() != nil { return ... }; continue }
\* The HTTP client fails a request whose context is already cancelled.
ChatDoRequest ==
    /\ UNCHANGED nonChatVars
    /\ chPc = "request"
    /\ requests' = requests + 1
    /\ lastResp' = NoResponse
    /\ \/ \E err \in (IF chCtxDone THEN {"ctx", "transport"} ELSE {"transport"}) :
            /\ lastErr' = err
            /\ hasRetryAfterHint' = FALSE
            /\ pending' = NoResponse
            /\ cancelObserved' = (cancelObserved \/ chCtxDone)
            /\ IF chCtxDone
               THEN /\ chPc' = "returned"
                    /\ chRet' = [kind |-> "ctxSend", attempts |-> 0, status |-> 0,
                                 cause |-> err]
                    /\ UNCHANGED attempt
               ELSE /\ chPc' = "loop"
                    /\ attempt' = attempt + 1
                    /\ UNCHANGED chRet
       \/ /\ ~chCtxDone
          /\ \E r \in Responses : pending' = r
          /\ chPc' = "read"
          /\ UNCHANGED << lastErr, hasRetryAfterHint, cancelObserved, attempt, chRet >>
    /\ UNCHANGED << maxRetries, retryBaseWait, retryMaxWait, retryJitter, chCtxDone,
                    retryAfterHint, retryAfterLog, wait, timerFired, waits >>

\* what the handling of a response leaves alone
ChatReadFrame ==
    UNCHANGED << maxRetries, retryBaseWait, retryMaxWait, retryJitter, chCtxDone,
                 retryAfterLog, wait, timerFired, requests, waits >>

\* retryAfter, hasRetryAfter := parseRetryAfterHeader(...); statusCode, body, err :=
\* p.readResponse(resp) ... down to "return llmResp, nil"
ChatReadResponse ==
    /\ UNCHANGED nonChatVars
    /\ chPc = "read"
    /\ pending' = NoResponse
    /\ ChatReadFrame
    /\ \/ \* readResponse fails: lastErr = err; continue
          \E err \in (IF chCtxDone THEN {"ctx", "read"} ELSE {"read"}) :
            /\ lastErr' = err
            /\ hasRetryAfterHint' = FALSE
            /\ cancelObserved' = (cancelObserved \/ chCtxDone)
            /\ lastResp' = NoResponse
            /\ chPc' = "loop"
            /\ attempt' = attempt + 1
            /\ UNCHANGED << retryAfterHint, chRet >>
       \/ \* the body is read
          /\ lastResp' = pending
          /\ UNCHANGED cancelObserved
          /\ IF pending.status # 200
             THEN /\ lastErr' = "api"
                  /\ IF isRetryableHTTPError(pending.status, pending.body)
                     THEN /\ retryAfterHint' = parseRetryAfterHeader(pending.header)[1]
                          /\ hasRetryAfterHint' = parseRetryAfterHeader(pending.header)[2]
                          /\ chPc' = "loop"
                          /\ attempt' = attempt + 1
                          /\ UNCHANGED chRet
                     ELSE /\ chPc' = "returned"
                          /\ chRet' = [kind |-> "api", attempts |-> 0,
                                       status |-> pending.status, cause |-> "api"]
                          /\ UNCHANGED << retryAfterHint, hasRetryAfterHint, attempt >>
             ELSE /\ hasRetryAfterHint' = FALSE
                  /\ UNCHANGED retryAfterHint
                  /\ LET llmResp == parseResponse(pending.body)
                     IN  IF llmResp.err
                         THEN /\ lastErr' = "parse"
                              /\ chPc' = "loop"
                              /\ attempt' = attempt + 1
                              /\ UNCHANGED chRet
                         ELSE IF shouldRetry(llmResp)
                         THEN /\ lastErr' = "empty"
                              /\ chPc' = "loop"
                              /\ attempt' = attempt + 1
                              /\ UNCHANGED chRet
                         ELSE /\ chPc' = "returned"
                              /\ chRet' = [kind |-> "ok", attempts |-> 0,
                                           status |-> 200, cause |-> "nil"]
                              /\ UNCHANGED << lastErr, attempt >>

\* the caller cancels ctx while Chat runs
ChatCancelCtx ==
    /\ UNCHANGED nonChatVars
    /\ chPc \in {"loop", "wait", "request", "read"}
    /\ ~chCtxDone
    /\ chCtxDone' = TRUE
    /\ cancelObserved' = (cancelObserved \/ chPc = "wait")
    /\ UNCHANGED << maxRetries, retryBaseWait, retryMaxWait, retryJitter, chPc,
                    attempt, lastErr, retryAfterHint, hasRetryAfterHint,
                    retryAfterLog, wait, timerFired, pending, lastResp, requests,
                    waits, chRet >>

NextChat ==
    \/ ChatLoop
    \/ ChatTimerFires
    \/ ChatWaitCancelled
    \/ ChatWaitElapsed
    \/ ChatDoRequest
    \/ ChatReadResponse
    \/ ChatCancelCtx

SpecChat == InitChat /\ [][NextChat]_vars

(***************************************************************************)
(* SubagentManager: Spawn, Cancel and the runTask goroutine.               *)
(***************************************************************************)
MaxTasks == 2

TaskIds == 1..MaxTasks

Extend(f, k, v) == [i \in (DOMAIN f) \cup {k} |-> IF i = k THEN v ELSE f[i]]

\* NewSubagentManager(provider, model, workspace, bus)
InitSub ==
    /\ PolicyIdle
    /\ AgentIdle
    /\ NotifIdle
    /\ BusIdle
    /\ BudgetIdle
    /\ LoopIdle
    /\ ExecIdle
    /\ ChatIdle
    /\ RetIdle
    /\ smTasks = << >>
    /\ smCancels = {}
    /\ smNextID = 1
    /\ smBus \in BOOLEAN
    /\ taskPc = << >>
    /\ callerCtxDone = FALSE
    /\ taskBase = << >>
    /\ taskCtxDone = << >>
    /\ taskFinal = << >>
    /\ cancelRet = NoCancel
    /\ cancelCalls = {}
    /\ inbound = << >>

\* Variant: the returned context is still cancelled with its parent.
WithoutCancelKeepsParent(ctx) == ctx

\* context.WithoutCancel(ctx): a context that is never cancelled, like
\* context.Background()
WithoutCancel(ctx) == "background"

\* Spawn(ctx, task, label, originChannel, originChatID): the task context is
\* context.WithCancel(baseCtx), baseCtx being context.WithoutCancel(ctx), or
\* context.Background() for a nil ctx; a child of a done context is done
Spawn ==
    /\ UNCHANGED nonSubVars
    /\ cancelRet' = NoCancel
    /\ smNextID <= MaxTasks
    /\ \E ctx \in {"nil", "caller"} :
        LET taskID == smNextID
            baseCtx == IF ctx # "nil" THEN WithoutCancel(ctx) ELSE "background"
        IN  /\ smNextID' = smNextID + 1
            /\ smTasks' = Extend(smTasks, taskID,
                                 [status |-> "running", result |-> "", finished |-> 0])
            /\ smCancels' = smCancels \cup {taskID}
            /\ taskBase' = Extend(taskBase, taskID, baseCtx)
            /\ taskCtxDone' = Extend(taskCtxDone, taskID,
                                     baseCtx = "caller" /\ callerCtxDone)
            /\ taskPc' = Extend(taskPc, taskID, "start")
            /\ taskFinal' = Extend(taskFinal, taskID,
                                   [finalErr |-> "", status |-> "", result |-> ""])
    /\ UNCHANGED << smBus, callerCtxDone, cancelCalls, inbound >>

\* The caller of Spawn cancels the ctx it passes, or returns and runs its
\* deferred cancel: every context derived from it by WithCancel is cancelled
\* with it.
CallerCtxCancel ==
    /\ UNCHANGED nonSubVars
    /\ cancelRet' = NoCancel
    /\ ~callerCtxDone
    /\ callerCtxDone' = TRUE
    /\ taskCtxDone' = [id \in DOMAIN taskCtxDone |->
                          taskCtxDone[id] \/ taskBase[id] = "caller"]
    /\ UNCHANGED << smTasks, smCancels, smNextID, smBus, taskPc, taskBase,
                    taskFinal, cancelCalls, inbound >>

\* Variant: Cancel marks any known task as cancelling, whatever its status.
CancelIgnoresStatus(taskID) ==
    /\ UNCHANGED nonSubVars
    /\ taskID \in DOMAIN smTasks
    /\ smTasks' = [smTasks EXCEPT ![taskID].status = "cancelling"]
    /\ taskCtxDone' = [taskCtxDone EXCEPT ![taskID] = TRUE]
    /\ cancelRet' = [id |-> taskID, err |-> "nil"]
    /\ cancelCalls' = cancelCalls \cup {taskID}
    /\ UNCHANGED << smCancels, smNextID, smBus, taskPc, callerCtxDone,
                    taskBase, taskFinal, inbound >>

\* Cancel(taskID): ErrSubagentTaskNotFound, ErrSubagentNotRunning, or
\* task.Status = "cancelling"; cancel(); return nil
Cancel(taskID) ==
    /\ UNCHANGED nonSubVars
    /\ IF taskID \notin DOMAIN smTasks
       THEN /\ cancelRet' = [id |-> taskID, err |-> "ErrSubagentTaskNotFound"]
            /\ UNCHANGED << smTasks, taskCtxDone, cancelCalls >>
       ELSE IF smTasks[taskID].status # "running"
       THEN /\ cancelRet' = [id |-> taskID, err |-> "ErrSubagentNotRunning"]
            /\ UNCHANGED << smTasks, taskCtxDone, cancelCalls >>
       ELSE IF taskID \notin smCancels
       THEN /\ cancelRet' = [id |-> taskID, err |-> "ErrSubagentNotRunning"]
            /\ UNCHANGED << smTasks, taskCtxDone, cancelCalls >>
       ELSE /\ smTasks' = [smTasks EXCEPT ![taskID].status = "cancelling"]
            /\ taskCtxDone' = [taskCtxDone EXCEPT ![taskID] = TRUE]
            /\ cancelRet' = [id |-> taskID, err |-> "nil"]
            /\ cancelCalls' = cancelCalls \cup {taskID}
    /\ UNCHANGED << smCancels, smNextID, smBus, taskPc, callerCtxDone,
                    taskBase, taskFinal, inbound >>

\* runTask: sm.mu.RLock(); task, ok := sm.tasks[taskID]; ...; sm.mu.RUnlock(), the
\* registry and the prompt are built and llmloop.Run is entered
RunTaskStart(id) ==
    /\ UNCHANGED nonSubVars
    /\ cancelRet' = NoCancel
    /\ id \in DOMAIN taskPc
    /\ taskPc[id] = "start"
    /\ taskPc' = [taskPc EXCEPT ![id] = IF id \in DOMAIN smTasks THEN "loop" ELSE "done"]
    /\ UNCHANGED << smTasks, smCancels, smNextID, smBus, callerCtxDone,
                    taskBase, taskCtxDone, taskFinal, cancelCalls, inbound >>

\* Variant: every error of the loop, context.Canceled included, is a failure.
RunTaskLoopReturnsCancelIsFailure(id) ==
    /\ UNCHANGED nonSubVars
    /\ cancelRet' = NoCancel
    /\ id \in DOMAIN taskPc
    /\ taskPc[id] = "loop"
    /\ \E finalErr \in {"nil", "other"} \cup (IF taskCtxDone[id] THEN {"canceled"} ELSE {}) :
         taskFinal' = [taskFinal EXCEPT ![id] =
             IF finalErr = "nil"
             THEN [finalErr |-> finalErr, status |-> "completed", result |-> "FinalContent"]
             ELSE [finalErr |-> finalErr, status |-> "failed", result |-> "Error"]]
    /\ taskPc' = [taskPc EXCEPT ![id] = "record"]
    /\ UNCHANGED << smTasks, smCancels, smNextID, smBus, callerCtxDone,
                    taskBase, taskCtxDone, cancelCalls, inbound >>

\* loopRes, finalErr := llmloop.Run(ctx, ...); status := "completed" ...
\* errors.Is(finalErr, context.Canceled) -> "cancelled", other error -> "failed".
\* Run returns context.Canceled only from a cancelled taskCtx; it may also
\* return nil or another error after the cancellation.
RunTaskLoopReturns(id) ==
    /\ UNCHANGED nonSubVars
    /\ cancelRet' = NoCancel
    /\ id \in DOMAIN taskPc
    /\ taskPc[id] = "loop"
    /\ \E finalErr \in {"nil", "other"} \cup (IF taskCtxDone[id] THEN {"canceled"} ELSE {}) :
         taskFinal' = [taskFinal EXCEPT ![id] =
             CASE finalErr = "nil" ->
                    [finalErr |-> finalErr, status |-> "completed", result |-> "FinalContent"]
               [] finalErr = "canceled" ->
                    [finalErr |-> finalErr, status |-> "cancelled", result |-> "Cancelled"]
               [] OTHER ->
                    [finalErr |-> finalErr, status |-> "failed", result |-> "Error"]]
    /\ taskPc' = [taskPc EXCEPT ![id] = "record"]
    /\ UNCHANGED << smTasks, smCancels, smNextID, smBus, callerCtxDone,
                    taskBase, taskCtxDone, cancelCalls, inbound >>

TerminalStatuses == {"cancelled", "completed", "failed"}

Restrict(f, S) == [i \in S |-> f[i]]

\* the terminal tasks of a task table
TerminalTasks(tasks) == { i \in DOMAIN tasks : tasks[i].status \in TerminalStatuses }

\* a terminal task whose finished_at is older than completed_ttl at time t
Expired(task, t, ttl) ==
    /\ task.status \in TerminalStatuses
    /\ t - task.finished > ttl

\* Variant: the cap evicts the oldest tasks, whatever their status.
RECURSIVE EvictOldestAnyStatus(_, _)
EvictOldestAnyStatus(tasks, cap) ==
    IF Cardinality(DOMAIN tasks) <= cap
    THEN tasks
    ELSE LET oldest == CHOOSE i \in DOMAIN tasks : \A j \in DOMAIN tasks : i <= j
         IN  EvictOldestAnyStatus(Restrict(tasks, DOMAIN tasks \ {oldest}), cap)

\* while the table holds more than max_tasks tasks, evict the oldest terminal
\* task; ids are allocated in creation order, so the oldest task has the
\* smallest id
RECURSIVE EvictOldest(_, _)
EvictOldest(tasks, cap) ==
    IF Cardinality(DOMAIN tasks) <= cap \/ TerminalTasks(tasks) = {}
    THEN tasks
    ELSE LET oldest == CHOOSE i \in TerminalTasks(tasks) :
                           \A j \in TerminalTasks(tasks) : i <= j
         IN  EvictOldest(Restrict(tasks, DOMAIN tasks \ {oldest}), cap)

\* cleanupLocked(now): evict the terminal tasks older than completed_ttl, then
\* the oldest terminal tasks above max_tasks; nothing before ConfigureRetention
cleanupLocked(tasks, t, retention) ==
    IF ~retention.configured
    THEN tasks
    ELSE EvictOldest(
             Restrict(tasks, { i \in DOMAIN tasks :
                                 ~Expired(tasks[i], t, retention.completedTTL) }),
             retention.maxTasks)

\* the task table once runTask has written status, result and finished_at
AfterRecord(id) ==
    IF id \in DOMAIN smTasks
    THEN [smTasks EXCEPT ![id] = [status |-> taskFinal[id].status,
                                   result |-> taskFinal[id].result,
                                   finished |-> now]]
    ELSE smTasks

\* sm.mu.Lock(); task.Status = status; task.Result = result;
\* delete(sm.cancels, taskID); sm.mu.Unlock(); the retention cleanup follows
\* the terminal transition under the same lock
RunTaskRecord(id) ==
    /\ UNCHANGED nonSubVars
    /\ cancelRet' = NoCancel
    /\ id \in DOMAIN taskPc
    /\ taskPc[id] = "record"
    /\ smTasks' = cleanupLocked(AfterRecord(id), now, smRetention)
    /\ smCancels' = smCancels \ {id}
    /\ taskPc' = [taskPc EXCEPT ![id] = "announce"]
    /\ UNCHANGED << smNextID, smBus, callerCtxDone, taskBase, taskCtxDone,
                    taskFinal, cancelCalls, inbound >>

\* Variant: only a completed task is announced.
RunTaskAnnounceOnlyCompleted(id) ==
    /\ UNCHANGED nonSubVars
    /\ cancelRet' = NoCancel
    /\ id \in DOMAIN taskPc
    /\ taskPc[id] = "announce"
    /\ inbound' = IF smBus /\ taskFinal[id].status = "completed"
                  THEN Append(inbound, [channel |-> "system", subagent_task_id |-> id,
                                        subagent_event |-> "complete"])
                  ELSE inbound
    /\ taskPc' = [taskPc EXCEPT ![id] = "done"]
    /\ UNCHANGED << smTasks, smCancels, smNextID, smBus, callerCtxDone,
                    taskBase, taskCtxDone, taskFinal, cancelCalls >>

\* if sm.bus != nil { sm.bus.PublishInbound(bus.InboundMessage{Channel: "system",
\*     ..., Metadata: {"subagent_event": event, "subagent_task_id": initial.ID}}) }
RunTaskAnnounce(id) ==
    /\ UNCHANGED nonSubVars
    /\ cancelRet' = NoCancel
    /\ id \in DOMAIN taskPc
    /\ taskPc[id] = "announce"
    /\ inbound' = IF smBus
                  THEN Append(inbound,
                         [channel |-> "system", subagent_task_id |-> id,
                          subagent_event |-> CASE taskFinal[id].status = "failed" -> "failed"
                                               [] taskFinal[id].status = "cancelled" -> "cancelled"
                                               [] OTHER -> "complete"])
                  ELSE inbound
    /\ taskPc' = [taskPc EXCEPT ![id] = "done"]
    /\ UNCHANGED << smTasks, smCancels, smNextID, smBus, callerCtxDone,
                    taskBase, taskCtxDone, taskFinal, cancelCalls >>

NextSub ==
    \/ Spawn
    \/ CallerCtxCancel
    \/ \E id \in TaskIds : Cancel(id)
    \/ \E id \in TaskIds : RunTaskStart(id)
    \/ \E id \in TaskIds : RunTaskLoopReturns(id)
    \/ \E id \in TaskIds : RunTaskRecord(id)
    \/ \E id \in TaskIds : RunTaskAnnounce(id)

SpecSub == InitSub /\ [][NextSub]_vars

\* Every runTask goroutine is scheduled again and again by the Go runtime, and
\* llmloop.Run returns: it makes at most maxIterations provider calls, each
\* bounded by llmTimeout, and each tool call is bounded by toolTimeout.
FairSpecSub ==
    /\ SpecSub
    /\ \A id \in TaskIds :
         /\ WF_vars(RunTaskStart(id))
         /\ WF_vars(RunTaskLoopReturns(id))
         /\ WF_vars(RunTaskRecord(id))
         /\ WF_vars(RunTaskAnnounce(id))

(***************************************************************************)
(* Retention of finished subagent tasks.                                   *)
(***************************************************************************)
MaxNow == 2

\* ConfigureRetention(max_tasks, completed_ttl): a cap below, at and above the
\* number of tasks, with a short and a long completed_ttl
RetentionConfigs ==
    { [configured |-> TRUE, maxTasks |-> 0, completedTTL |-> MaxNow],
      [configured |-> TRUE, maxTasks |-> 1, completedTTL |-> MaxNow],
      [configured |-> TRUE, maxTasks |-> MaxTasks + 1, completedTTL |-> 0],
      [configured |-> TRUE, maxTasks |-> 1, completedTTL |-> 0] }

\* NewSubagentManager(provider, model, workspace, nil), then ConfigureRetention
InitRet ==
    /\ PolicyIdle
    /\ AgentIdle
    /\ NotifIdle
    /\ BusIdle
    /\ BudgetIdle
    /\ LoopIdle
    /\ ExecIdle
    /\ ChatIdle
    /\ smRetention \in RetentionConfigs
    /\ now = 0
    /\ smTasks = << >>
    /\ smCancels = {}
    /\ smNextID = 1
    /\ smBus = FALSE
    /\ taskPc = << >>
    /\ callerCtxDone = FALSE
    /\ taskBase = << >>
    /\ taskCtxDone = << >>
    /\ taskFinal = << >>
    /\ cancelRet = NoCancel
    /\ cancelCalls = {}
    /\ inbound = << >>

\* time passes
Tick ==
    /\ now < MaxNow
    /\ now' = now + 1
    /\ UNCHANGED << execVars, chatVars, subVars, loopVars, budgetVars, busVars, notifVars, agentVars, policyVars, smRetention >>

\* the periodic sweep: sm.mu.Lock(); sm.cleanupLocked(time.Now()); sm.mu.Unlock()
Sweep ==
    /\ smTasks' = cleanupLocked(smTasks, now, smRetention)
    /\ cancelRet' = NoCancel
    /\ UNCHANGED << smCancels, smNextID, smBus, taskPc, callerCtxDone, taskBase,
                    taskCtxDone, taskFinal, cancelCalls, inbound >>
    /\ UNCHANGED << execVars, chatVars, retVars, loopVars, budgetVars, busVars, notifVars, agentVars, policyVars >>

NextRet ==
    \/ Spawn
    \/ \E id \in TaskIds : Cancel(id)
    \/ \E id \in TaskIds : RunTaskStart(id)
    \/ \E id \in TaskIds : RunTaskLoopReturns(id)
    \/ \E id \in TaskIds : RunTaskRecord(id)
    \/ \E id \in TaskIds : RunTaskAnnounce(id)
    \/ Tick
    \/ Sweep

SpecRet == InitRet /\ [][NextRet]_vars

(***************************************************************************)
(* Messages and the message budget (providers.ApplyMessageBudget).         *)
(***************************************************************************)
MaxIter == 2

MaxToolCalls == 2

\* a content of k characters
Chars(k) == [i \in 1..k |-> "x"]

\* providers.Message{Role: role, Content: content}
Message(role, content) ==
    [role |-> role, content |-> content, tool_call_id |-> "", tool_calls |-> << >>]

\* providers.AssistantMessageFromResponse(resp): the response's content and
\* tool calls in an assistant message
AssistantMessageFromResponse(resp) ==
    [role |-> "assistant", content |-> resp.content, tool_call_id |-> "",
     tool_calls |-> resp.tool_calls]

\* const defaultTruncationMarker = "... [truncated]"
defaultTruncationMarker ==
    << ".", ".", ".", " ", "[", "t", "r", "u", "n", "c", "a", "t", "e", "d", "]" >>

\* the budgets the loop is run with: none, a message cap, a total size cap, and
\* per-message caps with a marker of their own
BudgetConfigs ==
    { NoBudget,
      [NoBudget EXCEPT !.MaxMessages = 3],
      [NoBudget EXCEPT !.MaxTotalChars = 9],
      [NoBudget EXCEPT !.MaxMessageChars = 2, !.MaxToolMessageChars = 1,
                       !.TruncationMarker = << "~" >>] }

\* func (b MessageBudget) Enabled() bool
Enabled(b) ==
    b.MaxMessages > 0 \/ b.MaxTotalChars > 0 \/ b.MaxMessageChars > 0
        \/ b.MaxToolMessageChars > 0

\* func (b MessageBudget) marker() string
marker(b) ==
    IF b.TruncationMarker = << >> THEN defaultTruncationMarker ELSE b.TruncationMarker

RECURSIVE sumMessageChars(_)
sumMessageChars(messages) ==
    IF messages = << >>
    THEN 0
    ELSE Len(Head(messages).content) + sumMessageChars(Tail(messages))

\* Variant: the last limit characters are kept and the marker is appended.
truncateWithMarkerKeepsTail(content, limit, mk) ==
    IF limit <= 0 THEN << >>
    ELSE IF Len(content) <= limit THEN content
    ELSE LET m == IF mk = << >> THEN defaultTruncationMarker ELSE mk
         IN  SubSeq(content, Len(content) - limit + 1, Len(content)) \o m

truncateWithMarker(content, limit, mk) ==
    IF limit <= 0 THEN << >>
    ELSE IF Len(content) <= limit THEN content
    ELSE LET m == IF mk = << >> THEN defaultTruncationMarker ELSE mk
         IN  IF Len(m) >= limit
             THEN SubSeq(m, 1, limit)
             ELSE SubSeq(content, 1, limit - Len(m)) \o m

\* the messages at the positions in keep, in their original order
RECURSIVE KeepAt(_, _, _)
KeepAt(messages, keep, i) ==
    IF i > Len(messages)
    THEN << >>
    ELSE (IF i \in keep THEN << messages[i] >> ELSE << >>) \o KeepAt(messages, keep, i + 1)

SystemIdx(messages) == { i \in 1..Len(messages) : messages[i].role = "system" }

OtherIdx(messages) == { i \in 1..Len(messages) : messages[i].role # "system" }

\* the k smallest, the k largest members of a set of positions
FirstOf(S, k) == { i \in S : Cardinality({ j \in S : j < i }) < k }

LastOf(S, k) == { i \in S : Cardinality({ j \in S : j > i }) < k }

keepSystemAndLatest(messages, maxMessages) ==
    IF maxMessages <= 0 \/ Len(messages) <= maxMessages
    THEN messages
    ELSE LET systemIdx == SystemIdx(messages)
             otherIdx == OtherIdx(messages)
             keepIdx == IF Cardinality(systemIdx) >= maxMessages
                        THEN FirstOf(systemIdx, maxMessages)
                        ELSE systemIdx
                               \cup LastOf(otherIdx, maxMessages - Cardinality(systemIdx))
         IN  KeepAt(messages, keepIdx, 1)

\* the walk of keepWithinTotalChars from the newest message to the oldest: the
\* non-system messages that still fit
RECURSIVE SelectNewestFitting(_, _, _, _)
SelectNewestFitting(messages, i, used, remaining) ==
    IF i = 0 THEN {}
    ELSE IF messages[i].role = "system"
    THEN SelectNewestFitting(messages, i - 1, used, remaining)
    ELSE IF used + Len(messages[i].content) <= remaining
    THEN {i} \cup SelectNewestFitting(messages, i - 1,
                                      used + Len(messages[i].content), remaining)
    ELSE SelectNewestFitting(messages, i - 1, used, remaining)

\* Variant: nothing is kept when no non-system message fits.
keepWithinTotalCharsNoForce(messages, maxTotalChars) ==
    IF maxTotalChars <= 0 \/ sumMessageChars(messages) <= maxTotalChars
    THEN messages
    ELSE LET systemIdx == SystemIdx(messages)
             totalSystem == sumMessageChars(KeepAt(messages, systemIdx, 1))
             remaining == Max(maxTotalChars - totalSystem, 0)
             selected == SelectNewestFitting(messages, Len(messages), 0, remaining)
         IN  KeepAt(messages, systemIdx \cup selected, 1)

keepWithinTotalChars(messages, maxTotalChars) ==
    IF maxTotalChars <= 0 \/ sumMessageChars(messages) <= maxTotalChars
    THEN messages
    ELSE LET systemIdx == SystemIdx(messages)
             otherIdx == OtherIdx(messages)
             totalSystem == sumMessageChars(KeepAt(messages, systemIdx, 1))
             remaining == Max(maxTotalChars - totalSystem, 0)
             selected == SelectNewestFitting(messages, Len(messages), 0, remaining)
             latestNonSystem == IF selected = {} /\ otherIdx # {}
                                THEN LastOf(otherIdx, 1)
                                ELSE {}
         IN  KeepAt(messages, systemIdx \cup selected \cup latestNonSystem, 1)

\* the first pass of ApplyMessageBudget: clip every message to its limit
ClipEach(messages, budget) ==
    [i \in 1..Len(messages) |->
        LET limit == IF messages[i].role = "tool" /\ budget.MaxToolMessageChars > 0
                     THEN budget.MaxToolMessageChars
                     ELSE budget.MaxMessageChars
        IN  IF limit > 0 /\ Len(messages[i].content) > limit
            THEN [messages[i] EXCEPT
                     !.content = truncateWithMarker(@, limit, marker(budget))]
            ELSE messages[i]]

\* the final fit pass of ApplyMessageBudget: if still over budget, trim the
\* latest non-system message
FinalFit(trimmed, budget) ==
    LET total == sumMessageChars(trimmed)
        overflow == total - budget.MaxTotalChars
        otherIdx == OtherIdx(trimmed)
    IN  IF total <= budget.MaxTotalChars \/ otherIdx = {}
        THEN trimmed
        ELSE LET i == CHOOSE k \in otherIdx : \A j \in otherIdx : j <= k
                 target == Max(Len(trimmed[i].content) - overflow, 1)
             IN  IF target < Len(trimmed[i].content)
                 THEN [trimmed EXCEPT
                          ![i].content = truncateWithMarker(@, target, marker(budget))]
                 ELSE trimmed

\* ApplyMessageBudget(messages, budget): the budgeted messages
ApplyMessageBudget(messages, budget) ==
    IF Len(messages) = 0 \/ ~Enabled(budget)
    THEN messages
    ELSE LET clipped == ClipEach(messages, budget)
             capped == IF budget.MaxMessages > 0 /\ Len(clipped) > budget.MaxMessages
                       THEN keepSystemAndLatest(clipped, budget.MaxMessages)
                       ELSE clipped
         IN  IF budget.MaxTotalChars > 0 /\ sumMessageChars(capped) > budget.MaxTotalChars
             THEN FinalFit(keepWithinTotalChars(capped, budget.MaxTotalChars), budget)
             ELSE capped

(***************************************************************************)
(* One call of providers.ApplyMessageBudget, pass by pass.                 *)
(***************************************************************************)
MaxBudgetMessages == 3

MaxContent == 4

Alphabet == << "a", "b", "c", "d", "e", "f", "g", "h" >>

\* a content of k characters
Text(k) == [j \in 1..k |-> Alphabet[((j - 1) % Len(Alphabet)) + 1]]

\* the message lists the budget is applied to, without their positions
BudgetMessages ==
    UNION { [1..len -> [role : {"system", "user", "tool"},
                        content : {Text(0), Text(1), Text(MaxContent)}]] :
            len \in 0..MaxBudgetMessages }

\* pos numbers the elements of the caller's slice
BudgetInputs ==
    { [i \in 1..Len(m) |-> [role |-> m[i].role, content |-> m[i].content, pos |-> i]] :
      m \in BudgetMessages }

\* the budgets of the calls: every limit off or on, with the default marker or
\* a marker of one character
Budgets ==
    [MaxMessages : {0, 1, 2},
     MaxTotalChars : {0, 1, 3},
     MaxMessageChars : {0, 2},
     MaxToolMessageChars : {0, 1},
     TruncationMarker : {<< >>, << "~" >>}]

InitBudget ==
    /\ PolicyIdle
    /\ AgentIdle
    /\ NotifIdle
    /\ BusIdle
    /\ ExecIdle
    /\ ChatIdle
    /\ SubIdle
    /\ RetIdle
    /\ LoopIdle
    /\ bgMessages \in BudgetInputs
    /\ bgBudget \in Budgets
    /\ bgTrimmed = << >>
    /\ bgShared = FALSE
    /\ bgPc = "entry"
    /\ bgOut = << >>

\* Variant: trimmed is the caller's slice itself.
BudgetEntryAliasesInput ==
    /\ UNCHANGED nonBudgetVars
    /\ bgPc = "entry"
    /\ IF Len(bgMessages) = 0 \/ ~Enabled(bgBudget)
       THEN /\ bgOut' = bgMessages
            /\ bgPc' = "returned"
            /\ UNCHANGED << bgTrimmed, bgShared >>
       ELSE /\ bgTrimmed' = bgMessages
            /\ bgShared' = TRUE
            /\ bgPc' = "clip"
            /\ UNCHANGED bgOut
    /\ UNCHANGED << bgMessages, bgBudget >>

\* if len(messages) == 0 || !budget.Enabled() { return append([]Message(nil),
\* messages...), stats }; trimmed := append([]Message(nil), messages...)
BudgetEntry ==
    /\ UNCHANGED nonBudgetVars
    /\ bgPc = "entry"
    /\ IF Len(bgMessages) = 0 \/ ~Enabled(bgBudget)
       THEN /\ bgOut' = bgMessages
            /\ bgPc' = "returned"
            /\ UNCHANGED << bgTrimmed, bgShared >>
       ELSE /\ bgTrimmed' = bgMessages
            /\ bgShared' = FALSE
            /\ bgPc' = "clip"
            /\ UNCHANGED bgOut
    /\ UNCHANGED << bgMessages, bgBudget >>

\* for i := range trimmed { ... trimmed[i].Content = truncateWithMarker(...) }:
\* the writes go to the backing array of trimmed
BudgetClip ==
    /\ UNCHANGED nonBudgetVars
    /\ bgPc = "clip"
    /\ bgTrimmed' = ClipEach(bgTrimmed, bgBudget)
    /\ bgMessages' = IF bgShared THEN bgTrimmed' ELSE bgMessages
    /\ bgPc' = "cap"
    /\ UNCHANGED << bgBudget, bgShared, bgOut >>

\* if budget.MaxMessages > 0 && len(trimmed) > budget.MaxMessages {
\* trimmed = keepSystemAndLatest(trimmed, budget.MaxMessages) }: a new slice
BudgetCap ==
    /\ UNCHANGED nonBudgetVars
    /\ bgPc = "cap"
    /\ IF bgBudget.MaxMessages > 0 /\ Len(bgTrimmed) > bgBudget.MaxMessages
       THEN /\ bgTrimmed' = keepSystemAndLatest(bgTrimmed, bgBudget.MaxMessages)
            /\ bgShared' = FALSE
       ELSE UNCHANGED << bgTrimmed, bgShared >>
    /\ bgPc' = "total"
    /\ UNCHANGED << bgMessages, bgBudget, bgOut >>

\* if budget.MaxTotalChars > 0 && sumMessageChars(trimmed) > budget.MaxTotalChars {
\* trimmed = keepWithinTotalChars(...); final fit pass }; return trimmed, stats
BudgetTotal ==
    /\ UNCHANGED nonBudgetVars
    /\ bgPc = "total"
    /\ IF bgBudget.MaxTotalChars > 0 /\ sumMessageChars(bgTrimmed) > bgBudget.MaxTotalChars
       THEN /\ bgOut' = FinalFit(keepWithinTotalChars(bgTrimmed, bgBudget.MaxTotalChars),
                                 bgBudget)
            /\ bgTrimmed' = bgOut'
            /\ bgShared' = FALSE
            /\ UNCHANGED bgMessages
       ELSE /\ bgOut' = bgTrimmed
            /\ UNCHANGED << bgTrimmed, bgShared, bgMessages >>
    /\ bgPc' = "returned"
    /\ UNCHANGED bgBudget

NextBudget ==
    \/ BudgetEntry
    \/ BudgetClip
    \/ BudgetCap
    \/ BudgetTotal

SpecBudget == InitBudget /\ [][NextBudget]_vars

(***************************************************************************)
(* The provider and the tools, as the iteration loops see them.            *)
(***************************************************************************)
\* the tool calls of the response to call number iteration: ids are unique
LoopToolCalls(iteration, k) == [j \in 1..k |-> [id |-> 10 * iteration + j, name |-> "t"]]

\* what provider.Chat may return: an error, or a response with or without
\* content and with or without tool calls
LLMResponses(iteration) ==
    { [err |-> TRUE, content |-> << >>, tool_calls |-> << >>] } \cup
    { [err |-> FALSE, content |-> c, tool_calls |-> LoopToolCalls(iteration, k)] :
          c \in { << >>, Chars(3) }, k \in 0..MaxToolCalls }

\* Variant: the results come back in reverse order.
ToolResultsReversed(calls) ==
    [j \in 1..Len(calls) |-> ToolResultMessage(calls[Len(calls) + 1 - j].id, Chars(2))]

\* ExecuteToolCalls(ctx, toolCalls, ...), executeToolsConcurrently: one tool
\* message per call, at the call's index
ToolResults(calls) ==
    [j \in 1..Len(calls) |-> ToolResultMessage(calls[j].id, Chars(2))]

\* the messages a loop starts from: the system prompt and the user message
InitialMessages == << Message("system", Chars(2)), Message("user", Chars(3)) >>

(***************************************************************************)
(* llmloop.Run.                                                            *)
(***************************************************************************)
\* Run(ctx, opts) is entered: result := RunResult{Messages: opts.Messages,
\* Exhausted: true}
InitRun ==
    /\ PolicyIdle
    /\ AgentIdle
    /\ NotifIdle
    /\ BusIdle
    /\ BudgetIdle
    /\ ExecIdle
    /\ ChatIdle
    /\ SubIdle
    /\ RetIdle
    /\ lpMaxIterations \in 0..MaxIter
    /\ lpBudget \in BudgetConfigs
    /\ lpHasExecuteTools \in BOOLEAN
    /\ lpMessages = InitialMessages
    /\ lpSession = << >>
    /\ lpIteration = 0
    /\ lpPc = "entry"
    /\ lpRequest = NoRequest
    /\ lpResp = NoLLMResponse
    /\ lpToolResults = << >>
    /\ lpExhausted = TRUE
    /\ lpFinalContent = << >>
    /\ lpCalls = 0
    /\ lpToolResponses = 0
    /\ lpSummaryCalls = 0
    /\ lpRet = NoLoopReturn

\* if opts.MaxIterations <= 0 { return result, nil }; for iteration := 1; ...
RunEntry ==
    /\ UNCHANGED nonLoopVars
    /\ lpPc = "entry"
    /\ IF lpMaxIterations <= 0
       THEN /\ lpPc' = "returned"
            /\ lpRet' = [returned |-> TRUE, err |-> FALSE, iterations |-> 0]
            /\ UNCHANGED lpIteration
       ELSE /\ lpPc' = "call"
            /\ lpIteration' = 1
            /\ UNCHANGED lpRet
    /\ UNCHANGED << lpMaxIterations, lpBudget, lpHasExecuteTools, lpMessages, lpSession,
                    lpRequest, lpResp, lpToolResults, lpExhausted, lpFinalContent,
                    lpCalls, lpToolResponses, lpSummaryCalls >>

\* requestMessages := result.Messages, budgeted if opts.MessageBudget.Enabled();
\* resp, err := providers.ChatWithTimeout(ctx, ..., requestMessages, toolDefs, ...)
RunCall ==
    /\ UNCHANGED nonLoopVars
    /\ lpPc = "call"
    /\ lpRequest' = [messages |-> IF Enabled(lpBudget)
                                  THEN ApplyMessageBudget(lpMessages, lpBudget)
                                  ELSE lpMessages,
                     tools |-> "defs"]
    /\ lpResp' \in LLMResponses(lpIteration)
    /\ lpCalls' = lpCalls + 1
    /\ lpPc' = "response"
    /\ UNCHANGED << lpMaxIterations, lpBudget, lpHasExecuteTools, lpMessages, lpSession,
                    lpIteration, lpToolResults, lpExhausted, lpFinalContent,
                    lpToolResponses, lpSummaryCalls, lpRet >>

\* Variant: a response without tool calls leaves result.Exhausted as it is.
RunResponseKeepsExhausted ==
    /\ UNCHANGED nonLoopVars
    /\ lpPc = "response"
    /\ IF lpResp.err
       THEN /\ lpPc' = "returned"
            /\ lpRet' = [returned |-> TRUE, err |-> TRUE, iterations |-> lpIteration]
            /\ UNCHANGED << lpMessages, lpFinalContent, lpToolResponses >>
       ELSE IF Len(lpResp.tool_calls) = 0
       THEN /\ lpPc' = "returned"
            /\ lpFinalContent' = lpResp.content
            /\ lpRet' = [returned |-> TRUE, err |-> FALSE, iterations |-> lpIteration]
            /\ UNCHANGED << lpMessages, lpToolResponses >>
       ELSE /\ lpPc' = "tools"
            /\ lpMessages' = Append(lpMessages, AssistantMessageFromResponse(lpResp))
            /\ lpToolResponses' = lpToolResponses + 1
            /\ UNCHANGED << lpFinalContent, lpRet >>
    /\ UNCHANGED << lpMaxIterations, lpBudget, lpHasExecuteTools, lpSession, lpIteration,
                    lpRequest, lpResp, lpToolResults, lpExhausted, lpCalls,
                    lpSummaryCalls >>

\* if err != nil { return result, err }; if len(resp.ToolCalls) == 0 {
\* result.FinalContent = resp.Content; result.Exhausted = false; return result, nil };
\* result.Messages = append(result.Messages, assistantMsg)
RunResponse ==
    /\ UNCHANGED nonLoopVars
    /\ lpPc = "response"
    /\ IF lpResp.err
       THEN /\ lpPc' = "returned"
            /\ lpRet' = [returned |-> TRUE, err |-> TRUE, iterations |-> lpIteration]
            /\ UNCHANGED << lpMessages, lpExhausted, lpFinalContent, lpToolResponses >>
       ELSE IF Len(lpResp.tool_calls) = 0
       THEN /\ lpPc' = "returned"
            /\ lpFinalContent' = lpResp.content
            /\ lpExhausted' = FALSE
            /\ lpRet' = [returned |-> TRUE, err |-> FALSE, iterations |-> lpIteration]
            /\ UNCHANGED << lpMessages, lpToolResponses >>
       ELSE /\ lpPc' = "tools"
            /\ lpMessages' = Append(lpMessages, AssistantMessageFromResponse(lpResp))
            /\ lpToolResponses' = lpToolResponses + 1
            /\ UNCHANGED << lpExhausted, lpFinalContent, lpRet >>
    /\ UNCHANGED << lpMaxIterations, lpBudget, lpHasExecuteTools, lpSession, lpIteration,
                    lpRequest, lpResp, lpToolResults, lpCalls, lpSummaryCalls >>

\* var toolResults []providers.Message; if opts.ExecuteTools != nil {
\* toolResults = opts.ExecuteTools(ctx, resp.ToolCalls, iteration) }
RunExecuteTools ==
    /\ UNCHANGED nonLoopVars
    /\ lpPc = "tools"
    /\ lpToolResults' = IF lpHasExecuteTools THEN ToolResults(lpResp.tool_calls) ELSE << >>
    /\ lpPc' = "append"
    /\ UNCHANGED << lpMaxIterations, lpBudget, lpHasExecuteTools, lpMessages, lpSession,
                    lpIteration, lpRequest, lpResp, lpExhausted, lpFinalContent, lpCalls,
                    lpToolResponses, lpSummaryCalls, lpRet >>

\* for _, tr := range toolResults { result.Messages = append(result.Messages, tr) }
RunAppendToolResult ==
    /\ UNCHANGED nonLoopVars
    /\ lpPc = "append"
    /\ lpToolResults # << >>
    /\ lpMessages' = Append(lpMessages, Head(lpToolResults))
    /\ lpToolResults' = Tail(lpToolResults)
    /\ UNCHANGED << lpMaxIterations, lpBudget, lpHasExecuteTools, lpSession, lpIteration,
                    lpPc, lpRequest, lpResp, lpExhausted, lpFinalContent, lpCalls,
                    lpToolResponses, lpSummaryCalls, lpRet >>

\* iteration++; iteration <= opts.MaxIterations, or else return result, nil
RunNextIteration ==
    /\ UNCHANGED nonLoopVars
    /\ lpPc = "append"
    /\ lpToolResults = << >>
    /\ IF lpIteration + 1 <= lpMaxIterations
       THEN /\ lpIteration' = lpIteration + 1
            /\ lpPc' = "call"
            /\ UNCHANGED lpRet
       ELSE /\ lpPc' = "returned"
            /\ lpRet' = [returned |-> TRUE, err |-> FALSE, iterations |-> lpIteration]
            /\ UNCHANGED lpIteration
    /\ UNCHANGED << lpMaxIterations, lpBudget, lpHasExecuteTools, lpMessages, lpSession,
                    lpRequest, lpResp, lpToolResults, lpExhausted, lpFinalContent,
                    lpCalls, lpToolResponses, lpSummaryCalls >>

NextRun ==
    \/ RunEntry
    \/ RunCall
    \/ RunResponse
    \/ RunExecuteTools
    \/ RunAppendToolResult
    \/ RunNextIteration

SpecRun == InitRun /\ [][NextRun]_vars

(***************************************************************************)
(* AgentLoop.runLLMIteration.                                              *)
(***************************************************************************)
\* the user message that asks for a summary at the iteration limit
SummaryPrompt ==
    Message("user", << "You've reached your tool call iteration limit. Please summarize" >>)

\* fmt.Sprintf("I reached my tool call limit (%d iterations) before finishing.
\* Ask me to continue ...", al.maxIterations)
FallbackMessage(cap) == << "I reached my tool call limit (", cap, " iterations)" >>

\* runAgentLoop has built the messages and saved the user message to the
\* session; runLLMIteration is entered: iteration := 0; exhausted := true
InitTurn ==
    /\ PolicyIdle
    /\ AgentIdle
    /\ NotifIdle
    /\ BusIdle
    /\ BudgetIdle
    /\ ExecIdle
    /\ ChatIdle
    /\ SubIdle
    /\ RetIdle
    /\ lpMaxIterations \in 0..MaxIter
    /\ lpBudget = NoBudget
    /\ lpHasExecuteTools = TRUE
    /\ lpMessages = InitialMessages
    /\ lpSession = << Message("user", Chars(3)) >>
    /\ lpIteration = 0
    /\ lpPc = "turn:loop"
    /\ lpRequest = NoRequest
    /\ lpResp = NoLLMResponse
    /\ lpToolResults = << >>
    /\ lpExhausted = TRUE
    /\ lpFinalContent = << >>
    /\ lpCalls = 0
    /\ lpToolResponses = 0
    /\ lpSummaryCalls = 0
    /\ lpRet = NoLoopReturn

\* for iteration < al.maxIterations { iteration++;
\* response, err := al.chatWithTimeout(ctx, messages, providerToolDefs, ...)
TurnCall ==
    /\ UNCHANGED nonLoopVars
    /\ lpPc = "turn:loop"
    /\ IF lpIteration < lpMaxIterations
       THEN /\ lpIteration' = lpIteration + 1
            /\ lpRequest' = [messages |-> lpMessages, tools |-> "defs"]
            /\ lpResp' \in LLMResponses(lpIteration + 1)
            /\ lpCalls' = lpCalls + 1
            /\ lpPc' = "turn:response"
       ELSE /\ lpPc' = "turn:after"
            /\ UNCHANGED << lpIteration, lpRequest, lpResp, lpCalls >>
    /\ UNCHANGED << lpMaxIterations, lpBudget, lpHasExecuteTools, lpMessages, lpSession,
                    lpToolResults, lpExhausted, lpFinalContent, lpToolResponses,
                    lpSummaryCalls, lpRet >>

\* Variant: a response without tool calls leaves exhausted set.
TurnResponseKeepsExhausted ==
    /\ UNCHANGED nonLoopVars
    /\ lpPc = "turn:response"
    /\ IF lpResp.err
       THEN /\ lpPc' = "returned"
            /\ lpRet' = [returned |-> TRUE, err |-> TRUE, iterations |-> lpIteration]
            /\ UNCHANGED << lpMessages, lpSession, lpExhausted, lpFinalContent,
                            lpToolResponses >>
       ELSE IF Len(lpResp.tool_calls) = 0
       THEN /\ lpPc' = "turn:after"
            /\ lpFinalContent' = lpResp.content
            /\ UNCHANGED << lpMessages, lpSession, lpExhausted, lpToolResponses, lpRet >>
       ELSE /\ lpPc' = "turn:tools"
            /\ lpMessages' = Append(lpMessages, AssistantMessageFromResponse(lpResp))
            /\ lpSession' = Append(lpSession, AssistantMessageFromResponse(lpResp))
            /\ lpToolResponses' = lpToolResponses + 1
            /\ UNCHANGED << lpExhausted, lpFinalContent, lpRet >>
    /\ UNCHANGED << lpMaxIterations, lpBudget, lpHasExecuteTools, lpIteration,
                    lpRequest, lpResp, lpToolResults, lpCalls, lpSummaryCalls >>

\* if err != nil { return "", iteration, err }; if len(response.ToolCalls) == 0 {
\* finalContent = response.Content; exhausted = false; break };
\* messages = append(messages, assistantMsg); al.sessions.AddFullMessage(...)
TurnResponse ==
    /\ UNCHANGED nonLoopVars
    /\ lpPc = "turn:response"
    /\ IF lpResp.err
       THEN /\ lpPc' = "returned"
            /\ lpRet' = [returned |-> TRUE, err |-> TRUE, iterations |-> lpIteration]
            /\ UNCHANGED << lpMessages, lpSession, lpExhausted, lpFinalContent,
                            lpToolResponses >>
       ELSE IF Len(lpResp.tool_calls) = 0
       THEN /\ lpPc' = "turn:after"
            /\ lpFinalContent' = lpResp.content
            /\ lpExhausted' = FALSE
            /\ UNCHANGED << lpMessages, lpSession, lpToolResponses, lpRet >>
       ELSE /\ lpPc' = "turn:tools"
            /\ lpMessages' = Append(lpMessages, AssistantMessageFromResponse(lpResp))
            /\ lpSession' = Append(lpSession, AssistantMessageFromResponse(lpResp))
            /\ lpToolResponses' = lpToolResponses + 1
            /\ UNCHANGED << lpExhausted, lpFinalContent, lpRet >>
    /\ UNCHANGED << lpMaxIterations, lpBudget, lpHasExecuteTools, lpIteration,
                    lpRequest, lpResp, lpToolResults, lpCalls, lpSummaryCalls >>

\* toolResults := al.executeToolsConcurrently(ctx, response.ToolCalls, iteration, opts)
TurnExecuteTools ==
    /\ UNCHANGED nonLoopVars
    /\ lpPc = "turn:tools"
    /\ lpToolResults' = ToolResults(lpResp.tool_calls)
    /\ lpPc' = "turn:append"
    /\ UNCHANGED << lpMaxIterations, lpBudget, lpHasExecuteTools, lpMessages, lpSession,
                    lpIteration, lpRequest, lpResp, lpExhausted, lpFinalContent, lpCalls,
                    lpToolResponses, lpSummaryCalls, lpRet >>

\* for _, tr := range toolResults { messages = append(messages, tr);
\* al.sessions.AddFullMessage(opts.SessionKey, tr) }
TurnAppendToolResult ==
    /\ UNCHANGED nonLoopVars
    /\ lpPc = "turn:append"
    /\ lpToolResults # << >>
    /\ lpMessages' = Append(lpMessages, Head(lpToolResults))
    /\ lpSession' = Append(lpSession, Head(lpToolResults))
    /\ lpToolResults' = Tail(lpToolResults)
    /\ UNCHANGED << lpMaxIterations, lpBudget, lpHasExecuteTools, lpIteration, lpPc,
                    lpRequest, lpResp, lpExhausted, lpFinalContent, lpCalls,
                    lpToolResponses, lpSummaryCalls, lpRet >>

\* the range loop is over: back to the head of the for loop
TurnLoopBack ==
    /\ UNCHANGED nonLoopVars
    /\ lpPc = "turn:append"
    /\ lpToolResults = << >>
    /\ lpPc' = "turn:loop"
    /\ UNCHANGED << lpMaxIterations, lpBudget, lpHasExecuteTools, lpMessages, lpSession,
                    lpIteration, lpRequest, lpResp, lpToolResults, lpExhausted,
                    lpFinalContent, lpCalls, lpToolResponses, lpSummaryCalls, lpRet >>

\* Variant: a failed summary call fails the turn.
TurnFinishSummaryErrorFails ==
    /\ UNCHANGED nonLoopVars
    /\ lpPc = "turn:after"
    /\ IF lpExhausted
       THEN /\ lpMessages' = Append(lpMessages, SummaryPrompt)
            /\ lpRequest' = [messages |-> lpMessages', tools |-> "nil"]
            /\ lpResp' \in LLMResponses(lpIteration + 1)
            /\ lpSummaryCalls' = lpSummaryCalls + 1
            /\ lpFinalContent' = lpResp'.content
            /\ lpRet' = [returned |-> TRUE, err |-> lpResp'.err, iterations |-> lpIteration]
       ELSE /\ lpRet' = [returned |-> TRUE, err |-> FALSE, iterations |-> lpIteration]
            /\ UNCHANGED << lpMessages, lpRequest, lpResp, lpSummaryCalls, lpFinalContent >>
    /\ lpPc' = "returned"
    /\ UNCHANGED << lpMaxIterations, lpBudget, lpHasExecuteTools, lpSession, lpIteration,
                    lpToolResults, lpExhausted, lpCalls, lpToolResponses >>

\* if exhausted { messages = append(messages, <summary prompt>);
\* response, err := al.chatWithTimeout(ctx, messages, nil, ...);
\* finalContent = <fallback> on error, response.Content otherwise };
\* return finalContent, iteration, nil
TurnFinish ==
    /\ UNCHANGED nonLoopVars
    /\ lpPc = "turn:after"
    /\ IF lpExhausted
       THEN /\ lpMessages' = Append(lpMessages, SummaryPrompt)
            /\ lpRequest' = [messages |-> lpMessages', tools |-> "nil"]
            /\ lpResp' \in LLMResponses(lpIteration + 1)
            /\ lpSummaryCalls' = lpSummaryCalls + 1
            /\ lpFinalContent' = IF lpResp'.err
                                 THEN FallbackMessage(lpMaxIterations)
                                 ELSE lpResp'.content
       ELSE UNCHANGED << lpMessages, lpRequest, lpResp, lpSummaryCalls, lpFinalContent >>
    /\ lpPc' = "returned"
    /\ lpRet' = [returned |-> TRUE, err |-> FALSE, iterations |-> lpIteration]
    /\ UNCHANGED << lpMaxIterations, lpBudget, lpHasExecuteTools, lpSession, lpIteration,
                    lpToolResults, lpExhausted, lpCalls, lpToolResponses >>

NextTurn ==
    \/ TurnCall
    \/ TurnResponse
    \/ TurnExecuteTools
    \/ TurnAppendToolResult
    \/ TurnLoopBack
    \/ TurnFinish

SpecTurn == InitTurn /\ [][NextTurn]_vars

\* either loop
SpecLoops == (InitRun \/ InitTurn) /\ [][NextRun \/ NextTurn]_vars

(***************************************************************************)
(* The message bus (bus.MessageBus).  The methods of the inbound and of    *)
(* the outbound channel are the same code; a behaviour exercises one of    *)
(* the two channels, with two publishers, one consumer and two closers.    *)
(***************************************************************************)
\* capacity of each channel (100 in NewMessageBus, scaled down)
BusCap == 2

\* number of Publish calls of one publisher
MaxPublish == 2

InitBus ==
    /\ PolicyIdle
    /\ AgentIdle
    /\ NotifIdle
    /\ ExecIdle
    /\ ChatIdle
    /\ SubIdle
    /\ RetIdle
    /\ LoopIdle
    /\ BudgetIdle
    /\ busCh \in Channels
    /\ BusFresh

\* the message of the publisher's current call: 10 * publisher + number
PubMsg(p) == 10 * p + pubSeq[p]

PublisherOf(m) == m \div 10

SeqOf(m) == m % 10

\* Variant: the channel hands out the newest message first.
EnqueueAtFront(buf, m) == << m >> \o buf

\* case mb.inbound <- msg: a buffered channel is a queue
Enqueue(buf, m) == Append(buf, m)

\* a goroutine calls PublishInbound(msg) or PublishOutbound(msg)
PubCall(p) ==
    /\ UNCHANGED nonBusVars
    /\ pubPc[p] = "idle"
    /\ pubSeq[p] < MaxPublish
    /\ pubSeq' = [pubSeq EXCEPT ![p] = @ + 1]
    /\ pubPc' = [pubPc EXCEPT ![p] = "rlock"]
    /\ csRet' = NoConsume
    /\ UNCHANGED << busCh, busBuf, busClosed, busDone, busWriter, busReaders, busOnce,
                    busPanic, csPc, csCtxDone, csCall, clPc, busCloseReturned,
                    busLast >>

\* mb.mu.RLock(): waits while a Lock() is pending or held
PubRLock(p) ==
    /\ UNCHANGED nonBusVars
    /\ pubPc[p] = "rlock"
    /\ busWriter = "none"
    /\ busReaders' = busReaders \cup {p}
    /\ pubPc' = [pubPc EXCEPT ![p] = "locked"]
    /\ csRet' = NoConsume
    /\ UNCHANGED << busCh, busBuf, busClosed, busDone, busWriter, busOnce, busPanic,
                    pubSeq, csPc, csCtxDone, csCall, clPc, busCloseReturned, busLast >>

\* Variant: the send waits for room in the buffer.
PubSelectBlocksWhenFull(p) ==
    /\ UNCHANGED nonBusVars
    /\ pubPc[p] = "locked"
    /\ busClosed \/ csPc = "parked" \/ Len(busBuf) < BusCap
    /\ IF busClosed
       THEN UNCHANGED << busBuf, csPc, csCall, busLast >>
       ELSE IF csPc = "parked"
       THEN /\ csPc' = "woken"
            /\ csCall' = [csCall EXCEPT !.by = "msg", !.msg = PubMsg(p)]
            /\ busLast' = [busLast EXCEPT ![p] = pubSeq[p]]
            /\ UNCHANGED busBuf
       ELSE IF Len(busBuf) < BusCap
       THEN /\ busBuf' = Enqueue(busBuf, PubMsg(p))
            /\ UNCHANGED << csPc, csCall, busLast >>
       ELSE UNCHANGED << busBuf, csPc, csCall, busLast >>
    /\ busReaders' = busReaders \ {p}
    /\ pubPc' = [pubPc EXCEPT ![p] = "idle"]
    /\ csRet' = NoConsume
    /\ UNCHANGED << busCh, busClosed, busDone, busWriter, busOnce, busPanic, pubSeq,
                    csCtxDone, clPc, busCloseReturned >>

\* if mb.closed { return }; select { case mb.inbound <- msg: default: log };
\* the deferred RUnlock.  The send finds the parked receiver, or room in the
\* buffer, or the default case is taken and the message is dropped.
PubSelect(p) ==
    /\ UNCHANGED nonBusVars
    /\ pubPc[p] = "locked"
    /\ IF busClosed
       THEN UNCHANGED << busBuf, csPc, csCall, busLast >>
       ELSE IF csPc = "parked"
       THEN /\ csPc' = "woken"
            /\ csCall' = [csCall EXCEPT !.by = "msg", !.msg = PubMsg(p)]
            /\ busLast' = [busLast EXCEPT ![p] = pubSeq[p]]
            /\ UNCHANGED busBuf
       ELSE IF Len(busBuf) < BusCap
       THEN /\ busBuf' = Enqueue(busBuf, PubMsg(p))
            /\ UNCHANGED << csPc, csCall, busLast >>
       ELSE UNCHANGED << busBuf, csPc, csCall, busLast >>
    /\ busReaders' = busReaders \ {p}
    /\ pubPc' = [pubPc EXCEPT ![p] = "idle"]
    /\ csRet' = NoConsume
    /\ UNCHANGED << busCh, busClosed, busDone, busWriter, busOnce, busPanic, pubSeq,
                    csCtxDone, clPc, busCloseReturned >>

\* a goroutine calls ConsumeInbound(ctx) or SubscribeOutbound(ctx)
CsCall ==
    /\ UNCHANGED nonBusVars
    /\ csPc = "idle"
    /\ csCall' = [NoCall EXCEPT !.afterClose = busCloseReturned]
    /\ csPc' = "check"
    /\ csRet' = NoConsume
    /\ UNCHANGED << busCh, busBuf, busClosed, busDone, busWriter, busReaders, busOnce,
                    busPanic, pubPc, pubSeq, csCtxDone, clPc, busCloseReturned,
                    busLast >>

\* Variant: the call goes to the select without reading mb.closed.
CsCheckIgnoresClosed ==
    /\ UNCHANGED nonBusVars
    /\ csPc = "check"
    /\ busWriter = "none"
    /\ csPc' = "select"
    /\ csRet' = NoConsume
    /\ UNCHANGED << busCh, busBuf, busClosed, busDone, busWriter, busReaders, busOnce,
                    busPanic, pubPc, pubSeq, csCtxDone, csCall, clPc, busCloseReturned,
                    busLast >>

\* mb.mu.RLock(); closed := mb.closed; mb.mu.RUnlock();
\* if closed { return InboundMessage{}, false }
CsCheck ==
    /\ UNCHANGED nonBusVars
    /\ csPc = "check"
    /\ busWriter = "none"
    /\ IF busClosed
       THEN /\ csRet' = [ok |-> FALSE, msg |-> 0, afterClose |-> csCall.afterClose,
                         parked |-> FALSE, by |-> "closed"]
            /\ csPc' = "idle"
            /\ csCall' = NoCall
       ELSE /\ csPc' = "select"
            /\ csRet' = NoConsume
            /\ UNCHANGED csCall
    /\ UNCHANGED << busCh, busBuf, busClosed, busDone, busWriter, busReaders, busOnce,
                    busPanic, pubPc, pubSeq, csCtxDone, clPc, busCloseReturned,
                    busLast >>

\* the cases of the select that can proceed
Ready ==
    (IF busBuf # << >> THEN {"msg"} ELSE {}) \cup
    (IF busDone THEN {"done"} ELSE {}) \cup
    (IF csCtxDone THEN {"ctx"} ELSE {})

\* select { case msg := <-mb.inbound: return msg, true; case <-mb.done: return
\* _, false; case <-ctx.Done(): return _, false }: one of the ready cases is
\* chosen, and with none ready the goroutine parks
CsSelect ==
    /\ UNCHANGED nonBusVars
    /\ csPc = "select"
    /\ IF Ready = {}
       THEN /\ csPc' = "parked"
            /\ csRet' = NoConsume
            /\ UNCHANGED << busBuf, busLast, csCall >>
       ELSE \E r \in Ready :
            /\ csRet' = [ok |-> r = "msg",
                         msg |-> IF r = "msg" THEN Head(busBuf) ELSE 0,
                         afterClose |-> csCall.afterClose,
                         parked |-> FALSE, by |-> r]
            /\ IF r = "msg"
               THEN /\ busBuf' = Tail(busBuf)
                    /\ busLast' = [busLast EXCEPT ![PublisherOf(Head(busBuf))] =
                                                      SeqOf(Head(busBuf))]
               ELSE UNCHANGED << busBuf, busLast >>
            /\ csPc' = "idle"
            /\ csCall' = NoCall
    /\ UNCHANGED << busCh, busClosed, busDone, busWriter, busReaders, busOnce,
                    busPanic, pubPc, pubSeq, csCtxDone, clPc, busCloseReturned >>

\* the consumer's context is cancelled; a consumer parked in the select is
\* woken by the case <-ctx.Done()
CsCancel ==
    /\ UNCHANGED nonBusVars
    /\ ~csCtxDone
    /\ csCtxDone' = TRUE
    /\ IF csPc = "parked"
       THEN /\ csPc' = "woken"
            /\ csCall' = [csCall EXCEPT !.by = "ctx"]
       ELSE UNCHANGED << csPc, csCall >>
    /\ csRet' = NoConsume
    /\ UNCHANGED << busCh, busBuf, busClosed, busDone, busWriter, busReaders, busOnce,
                    busPanic, pubPc, pubSeq, clPc, busCloseReturned, busLast >>

\* the woken goroutine runs the case that woke it and returns
CsReturn ==
    /\ UNCHANGED nonBusVars
    /\ csPc = "woken"
    /\ csRet' = [ok |-> csCall.by = "msg", msg |-> csCall.msg,
                 afterClose |-> csCall.afterClose, parked |-> TRUE, by |-> csCall.by]
    /\ csPc' = "idle"
    /\ csCall' = NoCall
    /\ UNCHANGED << busCh, busBuf, busClosed, busDone, busWriter, busReaders, busOnce,
                    busPanic, pubPc, pubSeq, csCtxDone, clPc, busCloseReturned,
                    busLast >>

\* a goroutine calls Close()
ClCall(k) ==
    /\ UNCHANGED nonBusVars
    /\ clPc[k] = "idle"
    /\ clPc' = [clPc EXCEPT ![k] = "once"]
    /\ csRet' = NoConsume
    /\ UNCHANGED << busCh, busBuf, busClosed, busDone, busWriter, busReaders, busOnce,
                    busPanic, pubPc, pubSeq, csPc, csCtxDone, csCall, busCloseReturned,
                    busLast >>

\* Variant: Close runs its body on every call.
ClOnceRunsEveryTime(k) ==
    /\ UNCHANGED nonBusVars
    /\ clPc[k] = "once"
    /\ busWriter = "none"
    /\ busWriter' = "pending"
    /\ busOnce' = "running"
    /\ clPc' = [clPc EXCEPT ![k] = "lock"]
    /\ csRet' = NoConsume
    /\ UNCHANGED << busCh, busBuf, busClosed, busDone, busReaders, busPanic, pubPc,
                    pubSeq, csPc, csCtxDone, csCall, busCloseReturned, busLast >>

\* mb.closeOnce.Do(func() { mb.mu.Lock() ...: the first call runs the body and
\* announces its Lock(); a call that finds the body done returns; a call that
\* finds it running waits
ClOnce(k) ==
    /\ UNCHANGED nonBusVars
    /\ clPc[k] = "once"
    /\ busOnce # "running"
    /\ IF busOnce = "fresh"
       THEN /\ busOnce' = "running"
            /\ busWriter' = "pending"
            /\ clPc' = [clPc EXCEPT ![k] = "lock"]
            /\ UNCHANGED busCloseReturned
       ELSE /\ clPc' = [clPc EXCEPT ![k] = "idle"]
            /\ busCloseReturned' = TRUE
            /\ UNCHANGED << busOnce, busWriter >>
    /\ csRet' = NoConsume
    /\ UNCHANGED << busCh, busBuf, busClosed, busDone, busReaders, busPanic, pubPc,
                    pubSeq, csPc, csCtxDone, csCall, busLast >>

\* mb.mu.Lock() is granted when the readers have left; mb.closed = true;
\* close(mb.done), which wakes the parked consumer and panics on a closed
\* channel
ClAcquire(k) ==
    /\ UNCHANGED nonBusVars
    /\ clPc[k] = "lock"
    /\ busReaders = {}
    /\ busWriter' = "held"
    /\ busClosed' = TRUE
    /\ IF busDone
       THEN /\ busPanic' = TRUE
            /\ UNCHANGED << busDone, csPc, csCall >>
       ELSE /\ busDone' = TRUE
            /\ IF csPc = "parked"
               THEN /\ csPc' = "woken"
                    /\ csCall' = [csCall EXCEPT !.by = "done"]
               ELSE UNCHANGED << csPc, csCall >>
            /\ UNCHANGED busPanic
    /\ clPc' = [clPc EXCEPT ![k] = "unlock"]
    /\ csRet' = NoConsume
    /\ UNCHANGED << busCh, busBuf, busReaders, busOnce, pubPc, pubSeq, csCtxDone,
                    busCloseReturned, busLast >>

\* mb.mu.Unlock(); the Once is marked done and Close returns
ClUnlock(k) ==
    /\ UNCHANGED nonBusVars
    /\ clPc[k] = "unlock"
    /\ busWriter' = "none"
    /\ busOnce' = "done"
    /\ busCloseReturned' = TRUE
    /\ clPc' = [clPc EXCEPT ![k] = "idle"]
    /\ csRet' = NoConsume
    /\ UNCHANGED << busCh, busBuf, busClosed, busDone, busReaders, busPanic, pubPc,
                    pubSeq, csPc, csCtxDone, csCall, busLast >>

NextBus ==
    \/ \E p \in Publishers : PubCall(p)
    \/ \E p \in Publishers : PubRLock(p)
    \/ \E p \in Publishers : PubSelect(p)
    \/ CsCall
    \/ CsCheck
    \/ CsSelect
    \/ CsCancel
    \/ CsReturn
    \/ \E k \in Closers : ClCall(k)
    \/ \E k \in Closers : ClOnce(k)
    \/ \E k \in Closers : ClAcquire(k)
    \/ \E k \in Closers : ClUnlock(k)

SpecBus == InitBus /\ [][NextBus]_vars

(***************************************************************************)
(* The status notifier (statusNotifier).  start, reset and stop hold sn.mu *)
(* for their whole body and the body never blocks, so each call is one     *)
(* step; the loop goroutine holds sn.mu only in its "lock" step.  A timer  *)
(* is a time.Timer whose channel C buffers one value.  A panic is not      *)
(* recovered anywhere: it ends the process, and no step follows it.        *)
(***************************************************************************)
MaxStarts == 2

MaxOps == 4

MaxTime == 3

MaxSent == 2

Delays == {1, 2}

InitNotif ==
    /\ PolicyIdle
    /\ AgentIdle
    /\ ExecIdle
    /\ ChatIdle
    /\ SubIdle
    /\ RetIdle
    /\ LoopIdle
    /\ BudgetIdle
    /\ BusIdle
    /\ snDelay \in Delays
    /\ NotifFresh

\* time.NewTimer(d)
NewTimer(d) == [armed |-> TRUE, deadline |-> snNow + d, c |-> 0]

\* t.Stop(): disarms; the value it returns is t.armed before the call
TimerStop(t) == [t EXCEPT !.armed = FALSE]

\* t.Reset(d)
TimerReset(t, d) == [t EXCEPT !.armed = TRUE, !.deadline = snNow + d]

\* select { case <-t.C: default: }
TimerDrain(t) == [t EXCEPT !.c = 0]

SnRunning == snPanic = "none"

\* func (sn *statusNotifier) start(toolName string)
SnStart ==
    /\ UNCHANGED nonNotifVars
    /\ SnRunning
    /\ snOps < MaxOps
    /\ Len(snLoops) < MaxStarts
    /\ snStopped' = FALSE
    /\ snTimers' = Append(snTimers, NewTimer(snDelay))
    /\ snTimer' = Len(snTimers) + 1
    /\ snLoops' = Append(snLoops, [pc |-> "enter", t |-> 0])
    /\ snOps' = snOps + 1
    /\ snOp' = "start"
    /\ snLast' = snNow
    /\ UNCHANGED << snDelay, snNow, snDone, snPanic, snSent >>

\* func (sn *statusNotifier) reset(toolName string)
SnReset ==
    /\ UNCHANGED nonNotifVars
    /\ SnRunning
    /\ snOps < MaxOps
    /\ snOps' = snOps + 1
    /\ snOp' = IF snStopped THEN "reset:stopped" ELSE "reset"
    /\ IF snStopped
       THEN UNCHANGED << snTimers, snPanic, snLast >>
       ELSE IF snTimer = 0
       THEN /\ snPanic' = "nil timer"
            /\ UNCHANGED << snTimers, snLast >>
       ELSE LET t == snTimers[snTimer]
                stopped == TimerStop(t)
                drained == IF t.armed THEN stopped ELSE TimerDrain(stopped)
            IN  /\ snTimers' = [snTimers EXCEPT ![snTimer] = TimerReset(drained, snDelay)]
                /\ snLast' = snNow
                /\ UNCHANGED snPanic
    /\ UNCHANGED << snDelay, snNow, snTimer, snStopped, snDone, snLoops, snSent >>

\* Variant: stop does not look at sn.stopped.
SnStopWithoutGuard ==
    /\ UNCHANGED nonNotifVars
    /\ SnRunning
    /\ snOps < MaxOps
    /\ snOps' = snOps + 1
    /\ snOp' = IF snStopped THEN "stop:stopped" ELSE "stop"
    /\ snStopped' = TRUE
    /\ IF snDone
       THEN /\ snPanic' = "close of closed channel"
            /\ UNCHANGED << snDone, snTimers >>
       ELSE /\ snDone' = TRUE
            /\ IF snTimer = 0
               THEN /\ snPanic' = "nil timer"
                    /\ UNCHANGED snTimers
               ELSE /\ snTimers' = [snTimers EXCEPT ![snTimer] = TimerStop(@)]
                    /\ UNCHANGED snPanic
    /\ UNCHANGED << snDelay, snNow, snTimer, snLoops, snLast, snSent >>

\* func (sn *statusNotifier) stop()
SnStop ==
    /\ UNCHANGED nonNotifVars
    /\ SnRunning
    /\ snOps < MaxOps
    /\ snOps' = snOps + 1
    /\ snOp' = IF snStopped THEN "stop:stopped" ELSE "stop"
    /\ IF snStopped
       THEN UNCHANGED << snStopped, snDone, snTimers, snPanic >>
       ELSE /\ snStopped' = TRUE
            /\ IF snDone
               THEN /\ snPanic' = "close of closed channel"
                    /\ UNCHANGED << snDone, snTimers >>
               ELSE /\ snDone' = TRUE
                    /\ IF snTimer = 0
                       THEN /\ snPanic' = "nil timer"
                            /\ UNCHANGED snTimers
                       ELSE /\ snTimers' = [snTimers EXCEPT ![snTimer] = TimerStop(@)]
                            /\ UNCHANGED snPanic
    /\ UNCHANGED << snDelay, snNow, snTimer, snLoops, snLast, snSent >>

\* the runtime fires an armed timer at its deadline: a non-blocking send on C
TimerFire(k) ==
    /\ UNCHANGED nonNotifVars
    /\ SnRunning
    /\ snTimers[k].armed
    /\ snNow >= snTimers[k].deadline
    /\ snTimers' = [snTimers EXCEPT ![k] = [@ EXCEPT !.armed = FALSE, !.c = 1]]
    /\ snOp' = "none"
    /\ UNCHANGED << snDelay, snNow, snTimer, snStopped, snDone, snPanic, snLoops,
                    snOps, snLast, snSent >>

\* the clock advances; a timer that is due fires first
SnTick ==
    /\ UNCHANGED nonNotifVars
    /\ SnRunning
    /\ snNow < MaxTime
    /\ \A k \in 1..Len(snTimers) : snTimers[k].armed => snTimers[k].deadline > snNow
    /\ snNow' = snNow + 1
    /\ snOp' = "none"
    /\ UNCHANGED << snDelay, snTimer, snTimers, snStopped, snDone, snPanic, snLoops,
                    snOps, snLast, snSent >>

\* for { select { ... } }: the select evaluates sn.done and sn.timer.C on entry
LoopEnter(l) ==
    /\ UNCHANGED nonNotifVars
    /\ SnRunning
    /\ snLoops[l].pc = "enter"
    /\ snLoops' = [snLoops EXCEPT ![l] = [pc |-> "select", t |-> snTimer]]
    /\ snOp' = "none"
    /\ UNCHANGED << snDelay, snNow, snTimer, snTimers, snStopped, snDone, snPanic,
                    snOps, snLast, snSent >>

\* case <-sn.done: return
LoopDone(l) ==
    /\ UNCHANGED nonNotifVars
    /\ SnRunning
    /\ snLoops[l].pc = "select"
    /\ snDone
    /\ snLoops' = [snLoops EXCEPT ![l].pc = "exit"]
    /\ snOp' = "none"
    /\ UNCHANGED << snDelay, snNow, snTimer, snTimers, snStopped, snDone, snPanic,
                    snOps, snLast, snSent >>

\* case <-sn.timer.C:
LoopTimer(l) ==
    /\ UNCHANGED nonNotifVars
    /\ SnRunning
    /\ snLoops[l].pc = "select"
    /\ snTimers[snLoops[l].t].c = 1
    /\ snTimers' = [snTimers EXCEPT ![snLoops[l].t] = TimerDrain(@)]
    /\ snLoops' = [snLoops EXCEPT ![l].pc = "lock"]
    /\ snOp' = "none"
    /\ UNCHANGED << snDelay, snNow, snTimer, snStopped, snDone, snPanic, snOps,
                    snLast, snSent >>

\* sn.mu.Lock(); if sn.stopped { sn.mu.Unlock(); return }
\* tool := sn.toolName; sn.timer.Reset(sn.delay); sn.mu.Unlock()
LoopLocked(l) ==
    /\ UNCHANGED nonNotifVars
    /\ SnRunning
    /\ snLoops[l].pc = "lock"
    /\ IF snStopped
       THEN /\ snLoops' = [snLoops EXCEPT ![l].pc = "exit"]
            /\ UNCHANGED snTimers
       ELSE /\ snLoops' = [snLoops EXCEPT ![l].pc = "publish"]
            /\ snTimers' = [snTimers EXCEPT ![snTimer] = TimerReset(@, snDelay)]
    /\ snOp' = "none"
    /\ UNCHANGED << snDelay, snNow, snTimer, snStopped, snDone, snPanic, snOps,
                    snLast, snSent >>

\* sn.bus.PublishOutbound(...): never blocks
LoopPublish(l) ==
    /\ UNCHANGED nonNotifVars
    /\ SnRunning
    /\ snLoops[l].pc = "publish"
    /\ snLoops' = [snLoops EXCEPT ![l].pc = "enter"]
    /\ snSent' = IF snSent < MaxSent THEN snSent + 1 ELSE snSent
    /\ snLast' = snNow
    /\ snOp' = "none"
    /\ UNCHANGED << snDelay, snNow, snTimer, snTimers, snStopped, snDone, snPanic,
                    snOps >>

NextNotif ==
    \/ SnStart
    \/ SnReset
    \/ SnStop
    \/ \E k \in 1..Len(snTimers) : TimerFire(k)
    \/ SnTick
    \/ \E l \in 1..Len(snLoops) : LoopEnter(l)
    \/ \E l \in 1..Len(snLoops) : LoopDone(l)
    \/ \E l \in 1..Len(snLoops) : LoopTimer(l)
    \/ \E l \in 1..Len(snLoops) : LoopLocked(l)
    \/ \E l \in 1..Len(snLoops) : LoopPublish(l)

SpecNotif == InitNotif /\ [][NextNotif]_vars

\* the steps of one loop goroutine
LoopStep(l) ==
    /\ l \in 1..Len(snLoops)
    /\ (LoopEnter(l) \/ LoopDone(l) \/ LoopTimer(l) \/ LoopLocked(l) \/ LoopPublish(l))

\* the scheduler runs every goroutine that can run
FairSpecNotif == SpecNotif /\ \A l \in 1..MaxStarts : WF_vars(LoopStep(l))

(***************************************************************************)
(* The AgentLoop: Run, processMessage, processSystemMessage, runAgentLoop, *)
(* maybeSummarize and summarizeSession.  Run is one goroutine; every       *)
(* summarization is a goroutine of its own.  Each call of the session      *)
(* store is atomic (the store locks).  A message is its role and an        *)
(* identity; every message counts MsgTokens tokens in estimateTokens.      *)
(***************************************************************************)
MaxInbound == 2

MaxSummaries == 2

StoredMessages == 4

\* summarizeSession keeps the last 4 messages
KeepLast == 4

MsgTokens == 1

ContextWindows == {0, 1, 4}

AgentIterations == {1}

InternalEvents == {"progress", "note", "warning"}

Events == InternalEvents \cup {"complete", ""}

\* the inbound messages: user messages of either session, and system messages
\* of subagents and of other senders for the first session
Inbounds ==
    [channel : {"telegram"}, sender : {"user"}, event : {""}, session : Sessions]
    \cup [channel : {"system"}, sender : {"subagent:1"}, event : Events,
          session : {"telegram:chat1"}]
    \cup [channel : {"system"}, sender : {"heartbeat"}, event : {"", "progress"},
          session : {"telegram:chat1"}]

\* strings.HasPrefix(msg.SenderID, "subagent:")
IsSubagent(sender) == sender = "subagent:1"

SessionMessage(role, id) == [role |-> role, id |-> id]

\* a history restored from storage: user and assistant messages in turn
StoredHistory(len) ==
    [i \in 1..len |-> SessionMessage(IF i % 2 = 1 THEN "user" ELSE "assistant", i)]

\* SessionManager.AddMessage / AddFullMessage
AddMessage(sessions, key, role, id) ==
    [sessions EXCEPT ![key] = Append(@, SessionMessage(role, id))]

\* SessionManager.TruncateHistory
TruncateHistory(sessions, key, keepLast) ==
    [sessions EXCEPT ![key] =
        IF Len(@) <= keepLast THEN @ ELSE SubSeq(@, Len(@) - keepLast + 1, Len(@))]

\* func (al *AgentLoop) estimateTokens(messages []providers.Message) int
estimateTokens(messages) == Len(messages) * MsgTokens

\* maybeSummarize's shouldSummarize
ShouldSummarize(history) ==
    IF agContextWindow > 0
    THEN estimateTokens(history) > (agContextWindow * 75) \div 100
    ELSE Len(history) > 20

\* summarizeSession's validMessages, out of toSummarize = history[:len(history)-4]
ValidMessages(history) ==
    SelectSeq(SubSeq(history, 1, Len(history) - KeepLast),
              LAMBDA m : /\ m.role \in {"user", "assistant"}
                         /\ ~(MsgTokens > agContextWindow \div 2))

InitAgent ==
    /\ PolicyIdle
    /\ ExecIdle
    /\ ChatIdle
    /\ SubIdle
    /\ RetIdle
    /\ LoopIdle
    /\ BudgetIdle
    /\ BusIdle
    /\ NotifIdle
    /\ agContextWindow \in ContextWindows
    /\ agMaxIterations \in AgentIterations
    /\ \E len \in {0, StoredMessages} :
         /\ agSessions = [k \in Sessions |->
                             IF k = "telegram:chat1" THEN StoredHistory(len) ELSE << >>]
         /\ agNextId = len + 1
    /\ AgentFresh

\* msg, ok := al.bus.ConsumeInbound(ctx)
AgConsume ==
    /\ UNCHANGED nonAgentVars
    /\ agPc = "consume"
    /\ agConsumed < MaxInbound
    /\ \E m \in Inbounds : agMsg' = m
    /\ agConsumed' = agConsumed + 1
    /\ agPc' = "process"
    /\ UNCHANGED << agContextWindow, agMaxIterations, agSessions, agSummary, agNextId,
                    agOpts, agIter, agPending, agFinal, agErr, agOut, agWrites,
                    agSummarizing, agSumm, agSumStarted >>

\* processMessage for a message of a user channel
AgProcessUser ==
    /\ UNCHANGED nonAgentVars
    /\ agPc = "process"
    /\ agMsg.channel # "system"
    /\ agOpts' = [SessionKey |-> agMsg.session,
                  DefaultResponse |-> "I've completed processing but have no response to give.",
                  EnableSummary |-> TRUE, SendResponse |-> FALSE]
    /\ agPc' = "runAgentLoop"
    /\ UNCHANGED << agContextWindow, agMaxIterations, agSessions, agSummary, agNextId,
                    agConsumed, agMsg, agIter, agPending, agFinal, agErr, agOut,
                    agWrites, agSummarizing, agSumm, agSumStarted >>

\* Variant: progress events go through runAgentLoop like every system message.
AgProcessSystemForwardsAll ==
    /\ UNCHANGED nonAgentVars
    /\ agPc = "process"
    /\ agMsg.channel = "system"
    /\ agOpts' = [SessionKey |-> agMsg.session,
                  DefaultResponse |-> "Background task completed.",
                  EnableSummary |-> FALSE, SendResponse |-> TRUE]
    /\ agPc' = "runAgentLoop"
    /\ UNCHANGED << agContextWindow, agMaxIterations, agSessions, agSummary, agNextId,
                    agConsumed, agMsg, agIter, agPending, agFinal, agErr, agOut,
                    agWrites, agSummarizing, agSumm, agSumStarted >>

\* processMessage for channel "system": processSystemMessage up to runAgentLoop
AgProcessSystem ==
    /\ UNCHANGED nonAgentVars
    /\ agPc = "process"
    /\ agMsg.channel = "system"
    /\ IF IsSubagent(agMsg.sender) /\ agMsg.event \in InternalEvents
       THEN /\ agSessions' = AddMessage(agSessions, agMsg.session, "assistant", agNextId)
            /\ agNextId' = agNextId + 1
            /\ agPc' = "respond"
            /\ UNCHANGED agOpts
       ELSE /\ agOpts' = [SessionKey |-> agMsg.session,
                          DefaultResponse |-> "Background task completed.",
                          EnableSummary |-> FALSE, SendResponse |-> TRUE]
            /\ agPc' = "runAgentLoop"
            /\ UNCHANGED << agSessions, agNextId >>
    /\ UNCHANGED << agContextWindow, agMaxIterations, agSummary, agConsumed, agMsg,
                    agIter, agPending, agFinal, agErr, agOut, agWrites, agSummarizing,
                    agSumm, agSumStarted >>

\* runAgentLoop, steps 1 to 3: build the messages, save the user message
AgRunAgentLoop ==
    /\ UNCHANGED nonAgentVars
    /\ agPc = "runAgentLoop"
    /\ agSessions' = AddMessage(agSessions, agOpts.SessionKey, "user", agNextId)
    /\ agNextId' = agNextId + 1
    /\ agWrites' = [agWrites EXCEPT !.user = @ + 1]
    /\ agPc' = "iterate"
    /\ UNCHANGED << agContextWindow, agMaxIterations, agSummary, agConsumed, agMsg,
                    agOpts, agIter, agPending, agFinal, agErr, agOut, agSummarizing,
                    agSumm, agSumStarted >>

\* the provider call counted in agWrites
Called == [agWrites EXCEPT !.calls = @ + 1,
                           !.userBeforeCall = @ /\ agWrites.user = 1]

\* runLLMIteration: one iteration up to the provider's response; a response
\* with tool calls is saved to the session
AgIterate ==
    /\ UNCHANGED nonAgentVars
    /\ agPc = "iterate"
    /\ agIter < agMaxIterations
    /\ agIter' = agIter + 1
    /\ agWrites' = Called
    /\ \E outcome \in {"error", "empty", "text", "one tool call", "two tool calls"} :
         CASE outcome = "error" ->
                /\ agErr' = TRUE
                /\ agPc' = "return error"
                /\ UNCHANGED << agFinal, agSessions, agNextId, agPending >>
           [] outcome \in {"empty", "text"} ->
                /\ agFinal' = IF outcome = "empty" THEN "" ELSE "text"
                /\ agPc' = "finish"
                /\ UNCHANGED << agErr, agSessions, agNextId, agPending >>
           [] OTHER ->
                /\ agSessions' = AddMessage(agSessions, agOpts.SessionKey, "assistant", agNextId)
                /\ agNextId' = agNextId + 1
                /\ agPending' = IF outcome = "one tool call" THEN 1 ELSE 2
                /\ agPc' = "tools"
                /\ UNCHANGED << agErr, agFinal >>
    /\ UNCHANGED << agContextWindow, agMaxIterations, agSummary, agConsumed, agMsg,
                    agOpts, agOut, agSummarizing, agSumm, agSumStarted >>

\* for _, tr := range toolResults { ...; al.sessions.AddFullMessage(opts.SessionKey, tr) }
AgToolResult ==
    /\ UNCHANGED nonAgentVars
    /\ agPc = "tools"
    /\ agSessions' = AddMessage(agSessions, agOpts.SessionKey, "tool", agNextId)
    /\ agNextId' = agNextId + 1
    /\ agPending' = agPending - 1
    /\ agPc' = IF agPending = 1 THEN "iterate" ELSE "tools"
    /\ UNCHANGED << agContextWindow, agMaxIterations, agSummary, agConsumed, agMsg,
                    agOpts, agIter, agFinal, agErr, agOut, agWrites, agSummarizing,
                    agSumm, agSumStarted >>

\* runLLMIteration after the last iteration: the summary call without tools
AgExhausted ==
    /\ UNCHANGED nonAgentVars
    /\ agPc = "iterate"
    /\ agIter >= agMaxIterations
    /\ agWrites' = Called
    /\ \E outcome \in {"error", "empty", "text"} :
         agFinal' = CASE outcome = "error" -> "I reached my tool call limit"
                      [] outcome = "empty" -> ""
                      [] OTHER -> "text"
    /\ agPc' = "finish"
    /\ UNCHANGED << agContextWindow, agMaxIterations, agSessions, agSummary, agNextId,
                    agConsumed, agMsg, agOpts, agIter, agPending, agErr, agOut,
                    agSummarizing, agSumm, agSumStarted >>

\* Variant: an empty final content is saved as it is.
AgFinishKeepsEmpty ==
    /\ UNCHANGED nonAgentVars
    /\ agPc = "finish"
    /\ agSessions' = AddMessage(agSessions, agOpts.SessionKey, "assistant", agNextId)
    /\ agNextId' = agNextId + 1
    /\ agWrites' = [agWrites EXCEPT !.final = @ + 1]
    /\ agPc' = "summarize"
    /\ UNCHANGED << agContextWindow, agMaxIterations, agSummary, agConsumed, agMsg,
                    agOpts, agIter, agPending, agFinal, agErr, agOut, agSummarizing,
                    agSumm, agSumStarted >>

\* runAgentLoop, steps 5 and 6: default response, save the final assistant message
AgFinish ==
    /\ UNCHANGED nonAgentVars
    /\ agPc = "finish"
    /\ agFinal' = IF agFinal = "" THEN agOpts.DefaultResponse ELSE agFinal
    /\ agSessions' = AddMessage(agSessions, agOpts.SessionKey, "assistant", agNextId)
    /\ agNextId' = agNextId + 1
    /\ agWrites' = [agWrites EXCEPT !.final = @ + 1]
    /\ agPc' = "summarize"
    /\ UNCHANGED << agContextWindow, agMaxIterations, agSummary, agConsumed, agMsg,
                    agOpts, agIter, agPending, agErr, agOut, agSummarizing, agSumm,
                    agSumStarted >>

\* a summarization goroutine as the go statement starts it
NewSummarization(key) == [key |-> key, pc |-> "spawned", snap |-> << >>]

Counted(c) == IF c < MaxSummaries THEN c + 1 ELSE c

\* Variant: maybeSummarize starts a summarization whatever al.summarizing holds.
AgMaybeSummarizeIgnoresFlag ==
    /\ UNCHANGED nonAgentVars
    /\ agPc = "summarize"
    /\ LET key == agOpts.SessionKey
           start == agOpts.EnableSummary /\ ShouldSummarize(agSessions[key])
       IN  /\ agSummarizing' = IF start THEN agSummarizing \cup {key} ELSE agSummarizing
           /\ agSumm' = IF start THEN Append(agSumm, NewSummarization(key)) ELSE agSumm
           /\ agSumStarted' = IF start THEN [agSumStarted EXCEPT ![key] = Counted(@)]
                              ELSE agSumStarted
    /\ agOut' = IF agOpts.SendResponse THEN agOut + 1 ELSE agOut
    /\ agPc' = "respond"
    /\ UNCHANGED << agContextWindow, agMaxIterations, agSessions, agSummary, agNextId,
                    agConsumed, agMsg, agOpts, agIter, agPending, agFinal, agErr,
                    agWrites >>

\* runAgentLoop, steps 7 to 9: maybeSummarize, send the response, return
AgMaybeSummarize ==
    /\ UNCHANGED nonAgentVars
    /\ agPc = "summarize"
    /\ LET key == agOpts.SessionKey
           start == /\ agOpts.EnableSummary
                    /\ ShouldSummarize(agSessions[key])
                    /\ key \notin agSummarizing
       IN  /\ agSummarizing' = IF start THEN agSummarizing \cup {key} ELSE agSummarizing
           /\ agSumm' = IF start THEN Append(agSumm, NewSummarization(key)) ELSE agSumm
           /\ agSumStarted' = IF start THEN [agSumStarted EXCEPT ![key] = Counted(@)]
                              ELSE agSumStarted
    /\ agOut' = IF agOpts.SendResponse THEN agOut + 1 ELSE agOut
    /\ agPc' = "respond"
    /\ UNCHANGED << agContextWindow, agMaxIterations, agSessions, agSummary, agNextId,
                    agConsumed, agMsg, agOpts, agIter, agPending, agFinal, agErr,
                    agWrites >>

\* runAgentLoop returned an error: processSystemMessage publishes it to the origin
AgReturnError ==
    /\ UNCHANGED nonAgentVars
    /\ agPc = "return error"
    /\ agOut' = IF agMsg.channel = "system" THEN agOut + 1 ELSE agOut
    /\ agPc' = "respond"
    /\ UNCHANGED << agContextWindow, agMaxIterations, agSessions, agSummary, agNextId,
                    agConsumed, agMsg, agOpts, agIter, agPending, agFinal, agErr,
                    agWrites, agSummarizing, agSumm, agSumStarted >>

\* what processMessage returns to Run
Response ==
    IF agMsg.channel = "system" THEN ""
    ELSE IF agErr THEN "Error processing message"
    ELSE agFinal

\* Run: if response != "" { al.bus.PublishOutbound(...) }
AgRespond ==
    /\ UNCHANGED nonAgentVars
    /\ agPc = "respond"
    /\ agOut' = IF Response # "" THEN agOut + 1 ELSE agOut
    /\ agPc' = "responded"
    /\ UNCHANGED << agContextWindow, agMaxIterations, agSessions, agSummary, agNextId,
                    agConsumed, agMsg, agOpts, agIter, agPending, agFinal, agErr,
                    agWrites, agSummarizing, agSumm, agSumStarted >>

\* Run's for loop comes round: the locals of the finished iteration are gone
AgLoopBack ==
    /\ UNCHANGED nonAgentVars
    /\ agPc = "responded"
    /\ agPc' = "consume"
    /\ agMsg' = NoInbound
    /\ agOpts' = NoOpts
    /\ agIter' = 0
    /\ agPending' = 0
    /\ agFinal' = ""
    /\ agErr' = FALSE
    /\ agOut' = 0
    /\ agWrites' = NoWrites
    /\ UNCHANGED << agContextWindow, agMaxIterations, agSessions, agSummary, agNextId,
                    agConsumed, agSummarizing, agSumm, agSumStarted >>

\* summarizeSession up to the summary call: history := GetHistory(sessionKey) ...
SumSnapshot(g) ==
    /\ UNCHANGED nonAgentVars
    /\ agSumm[g].pc = "spawned"
    /\ LET history == agSessions[agSumm[g].key]
       IN  agSumm' = [agSumm EXCEPT ![g] =
                        IF Len(history) <= KeepLast \/ ValidMessages(history) = << >>
                        THEN [@ EXCEPT !.pc = "deferred"]
                        ELSE [@ EXCEPT !.pc = "calling", !.snap = history]]
    /\ UNCHANGED << agContextWindow, agMaxIterations, agSessions, agSummary, agNextId,
                    agConsumed, agPc, agMsg, agOpts, agIter, agPending, agFinal, agErr,
                    agOut, agWrites, agSummarizing, agSumStarted >>

\* the summary call returns; if finalSummary != "" { SetSummary; TruncateHistory(key, 4); Save }
SumCallEnds(g) ==
    /\ UNCHANGED nonAgentVars
    /\ agSumm[g].pc = "calling"
    /\ \E finalSummary \in {"", "summary"} :
         IF finalSummary = ""
         THEN UNCHANGED << agSessions, agSummary >>
         ELSE /\ agSummary' = [agSummary EXCEPT ![agSumm[g].key] = TRUE]
              /\ agSessions' = TruncateHistory(agSessions, agSumm[g].key, KeepLast)
    /\ agSumm' = [agSumm EXCEPT ![g].pc = "deferred"]
    /\ UNCHANGED << agContextWindow, agMaxIterations, agNextId, agConsumed, agPc, agMsg,
                    agOpts, agIter, agPending, agFinal, agErr, agOut, agWrites,
                    agSummarizing, agSumStarted >>

Without(seq, g) == [i \in 1..(Len(seq) - 1) |-> IF i < g THEN seq[i] ELSE seq[i + 1]]

\* defer al.summarizing.Delete(sessionKey); the goroutine ends
SumDeferred(g) ==
    /\ UNCHANGED nonAgentVars
    /\ agSumm[g].pc = "deferred"
    /\ agSummarizing' = agSummarizing \ {agSumm[g].key}
    /\ agSumm' = Without(agSumm, g)
    /\ UNCHANGED << agContextWindow, agMaxIterations, agSessions, agSummary, agNextId,
                    agConsumed, agPc, agMsg, agOpts, agIter, agPending, agFinal, agErr,
                    agOut, agWrites, agSumStarted >>

NextAgent ==
    \/ AgConsume
    \/ AgProcessUser
    \/ AgProcessSystem
    \/ AgRunAgentLoop
    \/ AgIterate
    \/ AgToolResult
    \/ AgExhausted
    \/ AgFinish
    \/ AgMaybeSummarize
    \/ AgReturnError
    \/ AgRespond
    \/ AgLoopBack
    \/ \E g \in 1..Len(agSumm) : SumSnapshot(g)
    \/ \E g \in 1..Len(agSumm) : SumCallEnds(g)
    \/ \E g \in 1..Len(agSumm) : SumDeferred(g)

SpecAgent == InitAgent /\ [][NextAgent]_vars

(***************************************************************************)
(* The tool execution policy (pkg/tools/policy.go).  Tool names are        *)
(* strings over a small alphabet with one upper-case letter and the space, *)
(* so that lower-casing and trimming both do something.                    *)
(***************************************************************************)
MaxNameLen == 2

NameChars == {"a", "A", "b", " "}

RECURSIVE NamesUpTo(_)
NamesUpTo(len) ==
    IF len = 0 THEN {<< >>}
    ELSE NamesUpTo(len - 1) \cup
         {Append(s, c) : s \in {t \in NamesUpTo(len - 1) : Len(t) = len - 1}, c \in NameChars}

ToolNames == NamesUpTo(MaxNameLen)

\* the entries a configuration writes into tools.policy.allow and tools.policy.deny
ListEntries == {<<"a">>, <<"A", " ">>, <<"b">>, <<" ">>}

\* strings.ToLower
ToLower(s) == [i \in 1..Len(s) |-> IF s[i] = "A" THEN "a" ELSE s[i]]

\* strings.TrimSpace
RECURSIVE TrimSpace(_)
TrimSpace(s) ==
    IF s = << >> THEN s
    ELSE IF Head(s) = " " THEN TrimSpace(Tail(s))
    ELSE IF s[Len(s)] = " " THEN TrimSpace(SubSeq(s, 1, Len(s) - 1))
    ELSE s

\* the map NewToolExecutionPolicy builds from one list: names lower-cased and
\* trimmed, empty names skipped
PolicySet(list) == {TrimSpace(ToLower(name)) : name \in list} \ {<< >>}

NewToolExecutionPolicy(enabled, allow, deny) ==
    [Enabled |-> enabled, Allow |-> PolicySet(allow), Deny |-> PolicySet(deny)]

\* p.check(toolName) with the allow list consulted before the deny list
checkAllowFirst(p, toolName) ==
    LET name == ToLower(TrimSpace(toolName)) IN
    IF ~p.Enabled THEN "nil"
    ELSE IF name = << >> THEN "tool name is empty"
    ELSE IF p.Allow # {} /\ name \in p.Allow THEN "nil"
    ELSE IF name \in p.Deny THEN "blocked by policy"
    ELSE IF p.Allow # {} THEN "not allowed by policy"
    ELSE "nil"

\* p.check(toolName): "nil" or the error it returns
check(p, toolName) ==
    LET name == ToLower(TrimSpace(toolName)) IN
    IF ~p.Enabled THEN "nil"
    ELSE IF name = << >> THEN "tool name is empty"
    ELSE IF name \in p.Deny THEN "blocked by policy"
    ELSE IF p.Allow # {} /\ name \notin p.Allow THEN "not allowed by policy"
    ELSE "nil"

InitPolicy ==
    /\ ExecIdle
    /\ ChatIdle
    /\ SubIdle
    /\ RetIdle
    /\ LoopIdle
    /\ BudgetIdle
    /\ BusIdle
    /\ NotifIdle
    /\ AgentIdle
    /\ \E enabled \in BOOLEAN, allow \in SUBSET ListEntries, deny \in SUBSET ListEntries :
         plPolicy = NewToolExecutionPolicy(enabled, allow, deny)
    /\ plToolName = << >>
    /\ plErr = "unchecked"

\* one call of p.check
PolicyCheck ==
    /\ \E toolName \in ToolNames :
         /\ plToolName' = toolName
         /\ plErr' = check(plPolicy, toolName)
    /\ UNCHANGED plPolicy
    /\ UNCHANGED nonPolicyVars

NextPolicy == PolicyCheck

SpecPolicy == InitPolicy /\ [][NextPolicy]_vars

(***************************************************************************)
(* Properties of the batch executor.                                       *)
(***************************************************************************)
ExecReturned == exPc = "returned"

PanicMessage(i) ==
    ToolResultMessage(toolCalls[i].id, <<"Error: tool panicked", toolCalls[i].name>>)

\* C1: for every batch of N calls and every completion order, ExecuteToolCalls
\* returns exactly N results and the result at index i carries the
\* tool_call_id of the call at index i.
C1_ResultsInInputOrder ==
    ExecReturned =>
        /\ Len(exReturned) = n
        /\ \A i \in 1..n : exReturned[i].tool_call_id = toolCalls[i].id

\* a batch returned whose last call completed first
C1_Witness ==
    /\ ExecReturned
    /\ n >= 2
    /\ optCallback
    /\ callbacks[1].index = n
    /\ callbacks[n].index = 1

\* C2: at no time are more than min(N, max_parallel) Execute invocations in
\* flight, max_parallel <= 0 meaning N.
C2_BoundedParallelism ==
    InFlight <= Min(n, IF optMaxParallel <= 0 THEN n ELSE optMaxParallel)

\* the limit is reached while another worker waits for a slot
C2_Witness ==
    /\ optMaxParallel > 0
    /\ optMaxParallel < n
    /\ InFlight = optMaxParallel
    /\ \E i \in 1..n : wPc[i] = "select"

SemHolders == { i \in 1..n : acquired[i] /\ wPc[i] \in {"executing", "deferred"} }

\* C3: a panic of Execute is recovered inside its worker: the call's result is
\* the "Error: tool X panicked" tool message with the call's tool_call_id, the
\* worker has released its semaphore slot and has signalled completion when it
\* exits, and the returned batch holds the results of all other calls.
C3_PanicRecovered ==
    /\ \A i \in 1..n :
         (panicked[i] /\ wPc[i] \in {"signal", "exit"}) => results[i] = PanicMessage(i)
    /\ sem = Cardinality(SemHolders)
    /\ Cardinality({ i \in 1..n : wPc[i] = "exit" }) = Len(doneCh) + completed
    /\ ExecReturned =>
         \A i \in 1..n :
            /\ wPc[i] = "exit"
            /\ exReturned[i].role = "tool"
            /\ exReturned[i].tool_call_id = toolCalls[i].id
            /\ panicked[i] <=> exReturned[i] = PanicMessage(i)

\* a batch returned in which one tool panicked and another returned normally
C3_Witness ==
    /\ ExecReturned
    /\ \E i, j \in 1..n :
         /\ panicked[i]
         /\ exReturned[i] = PanicMessage(i)
         /\ ~panicked[j]
         /\ exReturned[j].content = <<"result", toolCalls[j].name>>

\* C4: the batch returns only after every worker has finished and the reporter
\* has drained all N signals: the callback has then been invoked exactly N
\* times, once per call index, with completed counting 1..N.
C4_ReturnsAfterDrain ==
    ExecReturned =>
        /\ \A i \in 1..n : wPc[i] = "exit"
        /\ doneCh = << >>
        /\ completed = n
        /\ n > 0 => rpPc = "closed"
        /\ optCallback =>
             /\ Len(callbacks) = n
             /\ \A k \in 1..n :
                  /\ callbacks[k].completed = k
                  /\ callbacks[k].total = n
                  /\ callbacks[k].call = toolCalls[callbacks[k].index]
                  /\ callbacks[k].result = exReturned[callbacks[k].index]
             /\ { callbacks[k].index : k \in 1..n } = 1..n
        /\ ~optCallback => callbacks = << >>

\* a batch with a callback returned after out-of-order completions
C4_Witness ==
    /\ ExecReturned
    /\ optCallback
    /\ n >= 2
    /\ Len(callbacks) = n
    /\ callbacks[1].index # 1

(***************************************************************************)
(* Properties of the provider retry loop.                                  *)
(***************************************************************************)
ChatReturned == chPc = "returned"

\* C5: one Chat call makes at most max_retries+1 HTTP requests, and the
\* retry-exhausted error, which names that attempt count, is returned only
\* after exactly max_retries+1 requests.
C5_AttemptsBounded ==
    /\ requests <= maxRetries + 1
    /\ chRet.kind = "exhausted" =>
         /\ requests = maxRetries + 1
         /\ chRet.attempts = requests

\* the retries are exhausted
C5_Witness ==
    /\ ChatReturned
    /\ chRet.kind = "exhausted"
    /\ requests = defaultMaxRetries + 1
    /\ waits = defaultMaxRetries

\* C6: context cancellation is never retried: once the context is cancelled
\* during a retry wait or at a transport error, Chat returns the context
\* error, never the retry-exhausted error (nor anything else).
C6_CancellationSurfaces ==
    (ChatReturned /\ cancelObserved) => chRet.kind \in {"ctxWait", "ctxSend"}

UnjitteredBackoff == Min(retryBaseWait * Pow2(attempt - 1), retryMaxWait)

GoodBodies == {"content", "tool_calls"}

\* C8: if the first k attempts end in transient outcomes and attempt k+1 yields
\* an HTTP 200 response that is not semantically empty, Chat returns that
\* response after exactly k+1 requests (and k waits); with k = 0 there is no
\* retry and no wait.
C8_SuccessAfterTransients ==
    /\ (lastResp.status = 200 /\ lastResp.body \in GoodBodies) =>
          (ChatReturned /\ chRet.kind = "ok")
    /\ chRet.kind = "ok" =>
          /\ lastResp.status = 200
          /\ lastResp.body \in GoodBodies
          /\ requests = attempt + 1
          /\ waits = attempt

\* success on the third attempt, after two transient outcomes
C8_Witness ==
    /\ ChatReturned
    /\ chRet.kind = "ok"
    /\ attempt = 2
    /\ requests = 3
    /\ waits = 2

NonRetryable4xx(r) ==
    /\ r.status >= 400
    /\ r.status <= 499
    /\ r.status # 429
    /\ ~(r.status = 401 /\ r.body \in {"user_not_found_json", "user_not_found_text"})

\* C9: an HTTP 4xx response other than 429 and other than 401 "user not found"
\* is never retried: Chat returns the API error at once, no further request and
\* no wait follows it.
C9_ClientErrorNotRetried ==
    NonRetryable4xx(lastResp) =>
        /\ ChatReturned
        /\ chRet.kind = "api"
        /\ chRet.status = lastResp.status
        /\ requests = attempt + 1
        /\ waits = attempt

\* a 401 that is not "user not found" ends the call after an earlier retry
C9_Witness ==
    /\ ChatReturned
    /\ chRet.kind = "api"
    /\ chRet.status = 401
    /\ lastResp.body = "other"
    /\ attempt = 1
    /\ requests = 2

(***************************************************************************)
(* Properties of the subagent manager.                                     *)
(***************************************************************************)
StatusChange(id) == << smTasks[id].status, smTasks'[id].status >>

\* C10 as stated: every task's status only advances along
\* running -> cancelling -> cancelled, running -> completed or
\* running -> failed, and never changes once it is terminal.
C10_StatusTransitionsAsStated ==
    [][\A id \in DOMAIN smTasks :
          smTasks'[id].status # smTasks[id].status =>
              StatusChange(id) \in { <<"running", "cancelling">>,
                                     <<"cancelling", "cancelled">>,
                                     <<"running", "completed">>,
                                     <<"running", "failed">> }]_vars

\* C10, amended: every task's status only advances along
\* running -> cancelling -> (cancelled | completed | failed),
\* running -> completed or running -> failed, under any interleaving of
\* Spawn, Cancel and worker completion; a terminal status never changes.
C10_StatusTransitions ==
    [][\A id \in DOMAIN smTasks :
          /\ id \in DOMAIN smTasks'
          /\ smTasks'[id].status # smTasks[id].status =>
                StatusChange(id) \in { <<"running", "cancelling">>,
                                       <<"cancelling", "cancelled">>,
                                       <<"cancelling", "completed">>,
                                       <<"cancelling", "failed">>,
                                       <<"running", "completed">>,
                                       <<"running", "failed">> }]_vars

\* two tasks were cancelled while running: one ended cancelled, the other
\* completed all the same, and both goroutines are done
C10_Witness ==
    \E a, b \in DOMAIN smTasks :
         /\ smTasks[a].status = "cancelled"
         /\ taskCtxDone[a]
         /\ smTasks[b].status = "completed"
         /\ taskCtxDone[b]
         /\ taskPc[a] = "done"
         /\ taskPc[b] = "done"

\* C11: Cancel(id) returns the NotFound error when no task has that id and the
\* NotRunning error when the task is in a terminal status; in every other case
\* (the task is running or cancelling) it sets the status to cancelling,
\* invokes the task's cancel handle and returns no error.
C11_CancelOutcomes ==
    [][cancelRet'.err # "none" =>
          LET id == cancelRet'.id
          IN  IF id \notin DOMAIN smTasks
              THEN /\ cancelRet'.err = "ErrSubagentTaskNotFound"
                   /\ UNCHANGED << smTasks, taskCtxDone >>
              ELSE IF smTasks[id].status \in TerminalStatuses
              THEN /\ cancelRet'.err = "ErrSubagentNotRunning"
                   /\ UNCHANGED << smTasks, taskCtxDone >>
              ELSE /\ cancelRet'.err = "nil"
                   /\ smTasks'[id].status = "cancelling"
                   /\ taskCtxDone'[id]]_vars

\* C12: explicit Cancel(id) is the only way to cancel a subagent: cancelling or
\* finishing the context passed to Spawn never cancels the task's context, and
\* a task is recorded (or about to be recorded) as cancelled only if Cancel(id)
\* invoked its cancel handle.
C12_OnlyCancelCancels ==
    \A id \in DOMAIN taskPc :
        /\ taskCtxDone[id] => id \in cancelCalls
        /\ taskFinal[id].status = "cancelled" => id \in cancelCalls
        /\ (id \in DOMAIN smTasks /\ smTasks[id].status = "cancelled") => id \in cancelCalls

\* the context passed to Spawn is done while its task still runs with a live
\* context, and another task was cancelled by Cancel
C12_Witness ==
    \E a, b \in DOMAIN smTasks :
        /\ callerCtxDone
        /\ taskPc[a] = "loop"
        /\ smTasks[a].status = "running"
        /\ ~taskCtxDone[a]
        /\ smTasks[b].status = "cancelled"
        /\ b \in cancelCalls

\* the terminal message of task id with the given event was handed to the bus
Announced(id, event) ==
    \E k \in 1..Len(inbound) :
        /\ inbound[k].channel = "system"
        /\ inbound[k].subagent_task_id = id
        /\ inbound[k].subagent_event = event

\* the subagent_event that belongs to a terminal status
EventOf(status) ==
    CASE status = "failed" -> "failed"
      [] status = "cancelled" -> "cancelled"
      [] status = "completed" -> "complete"

\* C13 as stated: after Cancel(id) has returned no error for a running task, on
\* a manager with a bus, the task eventually has status cancelled and a
\* terminal inbound system message with subagent_event=cancelled is published.
C13_CancelLeadsToCancelledAsStated ==
    \A id \in TaskIds :
        (smBus /\ id \in cancelCalls) ~>
            (/\ id \in DOMAIN smTasks
             /\ smTasks[id].status = "cancelled"
             /\ Announced(id, "cancelled"))

\* C13, amended: after Cancel(id) has returned no error for a running task, the
\* task eventually reaches a terminal status, which is the one runTask derived
\* from the loop's outcome (cancelled, or completed or failed if the loop ended
\* that way), and on a manager with a bus the terminal inbound system message
\* with the matching subagent_event is published for it.
C13_CancelLeadsToTerminal ==
    \A id \in TaskIds :
        (id \in cancelCalls) ~>
            (/\ id \in DOMAIN smTasks
             /\ taskPc[id] = "done"
             /\ smTasks[id].status \in TerminalStatuses
             /\ smTasks[id].status = taskFinal[id].status
             /\ smBus => Announced(id, EventOf(smTasks[id].status)))

\* a task cancelled while running has ended cancelled and its terminal message
\* is out
C13_Witness ==
    \E id \in cancelCalls :
        /\ smBus
        /\ taskPc[id] = "done"
        /\ smTasks[id].status = "cancelled"
        /\ Announced(id, "cancelled")

\* the positions in inbound of the terminal messages of task id
TerminalMessages(id) ==
    { k \in 1..Len(inbound) : inbound[k].subagent_task_id = id }

BeforeCleanup ==
    IF \E r \in DOMAIN taskPc : taskPc[r] = "record" /\ taskPc'[r] = "announce"
    THEN AfterRecord(CHOOSE r \in DOMAIN taskPc :
                         taskPc[r] = "record" /\ taskPc'[r] = "announce")
    ELSE smTasks

\* C15: retention cleanup, by completed_ttl or by the max_tasks cap, only ever
\* evicts tasks in a terminal status, and the cap evicts oldest first: a task
\* removed without being older than completed_ttl leaves no older terminal
\* task behind. A running or cancelling task is never evicted, whatever the
\* configuration and however many live tasks there are.
C15_EvictsOnlyTerminal ==
    [][\A id \in DOMAIN BeforeCleanup :
          id \notin DOMAIN smTasks' =>
              /\ BeforeCleanup[id].status \in TerminalStatuses
              /\ \/ Expired(BeforeCleanup[id], now, smRetention.completedTTL)
                 \/ \A j \in TerminalTasks(BeforeCleanup) :
                        j < id => j \notin DOMAIN smTasks']_vars

\* a finished task was evicted although an older task is still in the table,
\* which is running or cancelling, and the table is still above the cap
C15_Witness ==
    \E j \in DOMAIN smTasks :
        /\ smTasks[j].status \in {"running", "cancelling"}
        /\ \E id \in DOMAIN taskPc : id > j /\ id \notin DOMAIN smTasks
        /\ Cardinality(DOMAIN smTasks) > smRetention.maxTasks

(***************************************************************************)
(* Properties of the iteration loops.                                      *)
(***************************************************************************)
LoopReturned == lpRet.returned

\* C18: llmloop.Run makes at most MaxIterations provider calls; all responses
\* but the last requested tools, and it stops at the first response without
\* tool calls, returning that response's content with Exhausted=false; a
\* return without error has Exhausted=true exactly when every one of the
\* MaxIterations responses requested tools.
C18_RunStopsOrExhausts ==
    /\ lpCalls <= Max(lpMaxIterations, 0)
    /\ lpToolResponses >= lpCalls - 1
    /\ (lpToolResponses < lpCalls /\ lpPc # "response") => LoopReturned
    /\ (LoopReturned /\ ~lpRet.err) =>
          /\ ~lpExhausted =>
                /\ lpResp.tool_calls = << >>
                /\ lpFinalContent = lpResp.content
                /\ lpToolResponses = lpCalls - 1
          /\ lpExhausted <=>
                (lpCalls = Max(lpMaxIterations, 0) /\ lpToolResponses = lpCalls)
          /\ lpRet.iterations = lpCalls

\* Run returned exhausted after two calls that both requested tools
C18_Witness ==
    /\ LoopReturned
    /\ ~lpRet.err
    /\ lpExhausted
    /\ lpMaxIterations >= 2
    /\ lpCalls = lpMaxIterations
    /\ lpSession = << >>

\* the iteration limit in force: a limit below 1 allows no call
IterationLimit == Max(lpMaxIterations, 0)

\* C16: runLLMIteration makes the final summary call exactly when every one of
\* the max_iterations provider responses requested tools, and at most once; the
\* call carries no tool definitions and the history so far followed by the
\* user message asking for a summary, and its content becomes the final answer.
C16_SummaryCallAtTheLimit ==
    /\ [](/\ lpSummaryCalls <= 1
          /\ LoopReturned =>
                (lpSummaryCalls = 1 <=>
                    (lpCalls = IterationLimit /\ lpToolResponses = IterationLimit)))
    /\ [][lpSummaryCalls' # lpSummaryCalls =>
            /\ lpSummaryCalls' = lpSummaryCalls + 1
            /\ lpRequest'.tools = "nil"
            /\ lpRequest'.messages = Append(lpMessages, SummaryPrompt)
            /\ lpMessages' = lpRequest'.messages
            /\ ~lpResp'.err => lpFinalContent' = lpResp'.content
            /\ LoopReturned']_vars

\* two responses requested tools, the limit is 2, and the summary call
\* answered with content that became the final answer
C16_Witness ==
    /\ LoopReturned
    /\ lpSummaryCalls = 1
    /\ lpMaxIterations = 2
    /\ lpToolResponses = 2
    /\ ~lpResp.err
    /\ lpFinalContent = Chars(3)
    /\ lpRequest.tools = "nil"

\* C17: reaching the iteration limit is never an error: a turn returns an
\* error only when a call inside the loop failed, and a failed summary call
\* returns the fallback message that names the limit, without error.
C17_ExhaustionIsNotAnError ==
    LoopReturned =>
        /\ lpRet.err => (lpSummaryCalls = 0 /\ lpToolResponses = lpCalls - 1)
        /\ (lpSummaryCalls = 1 /\ lpResp.err) =>
              (~lpRet.err /\ lpFinalContent = FallbackMessage(lpMaxIterations))

\* the summary call failed after two iterations of tool calls
C17_Witness ==
    /\ LoopReturned
    /\ lpSummaryCalls = 1
    /\ lpResp.err
    /\ lpMaxIterations = 2
    /\ lpFinalContent = FallbackMessage(2)

\* the index of the last assistant message of seq that requests tools, or 0
LastRequest(seq) ==
    LET S == { i \in 1..Len(seq) : seq[i].role = "assistant" /\ seq[i].tool_calls # << >> }
    IN  IF S = {} THEN 0 ELSE CHOOSE i \in S : \A j \in S : j <= i

\* the loop is between appending an assistant message and its last tool result
Appending == lpPc \in {"tools", "append", "turn:tools", "turn:append"}

\* in seq, every assistant message with K tool calls is followed by the K tool
\* results of those calls in call order; the newest one may still be receiving
\* them, and then the results waiting to be appended are the rest of the K
ResultsFollowCalls(seq) ==
    \A i \in 1..Len(seq) :
        (seq[i].role = "assistant" /\ seq[i].tool_calls # << >>) =>
            LET K == Len(seq[i].tool_calls)
                have == Min(K, Len(seq) - i)
            IN  /\ \A j \in 1..have :
                      /\ seq[i + j].role = "tool"
                      /\ seq[i + j].tool_call_id = seq[i].tool_calls[j].id
                /\ have < K =>
                      /\ Appending
                      /\ i = LastRequest(seq)
                      /\ lpPc \in {"append", "turn:append"} =>
                            /\ Len(lpToolResults) = K - have
                            /\ \A m \in 1..(K - have) :
                                  lpToolResults[m].tool_call_id = seq[i].tool_calls[have + m].id

\* new is old, or old with one message appended
GrowsByAtMostOne(old, new) ==
    \/ new = old
    \/ Len(new) = Len(old) + 1 /\ SubSeq(new, 1, Len(old)) = old

ToolMessagesAnswerTheirCall(seq) ==
    \A t \in 1..Len(seq) :
        seq[t].role = "tool" =>
            \E i \in 1..(t - 1) :
                /\ seq[i].role = "assistant"
                /\ \A k \in (i + 1)..t : seq[k].role = "tool"
                /\ \E j \in 1..Len(seq[i].tool_calls) :
                      seq[i].tool_calls[j].id = seq[t].tool_call_id

\* C20: every tool message in the history, in the session and in a request
\* sent to the provider answers a tool call of the assistant message that
\* immediately precedes its run of tool messages.
C20_ToolMessagesAnswerTheirCall ==
    /\ ToolMessagesAnswerTheirCall(lpMessages)
    /\ ToolMessagesAnswerTheirCall(lpSession)
    /\ ToolMessagesAnswerTheirCall(lpRequest.messages)

(***************************************************************************)
(* Properties of the message budget.                                       *)
(***************************************************************************)
BudgetReturned == bgPc = "returned"

\* the positions, in the caller's slice, of the messages of seq
Positions(seq) == { seq[k].pos : k \in 1..Len(seq) }

\* the system messages that precede the first non-system message
LeadingSystem(messages) ==
    { i \in SystemIdx(messages) : \A j \in OtherIdx(messages) : i < j }

\* the position of the newest non-system message, as a set
NewestOther(messages) == LastOf(OtherIdx(messages), 1)

\* C21: when the input has a non-system message, so has the output of
\* ApplyMessageBudget.
C21_NonSystemSurvives ==
    (BudgetReturned /\ OtherIdx(bgMessages) # {}) => OtherIdx(bgOut) # {}

\* C22: every system message that precedes the first non-system message of
\* the input is in the output of ApplyMessageBudget.
C22_LeadingSystemKept ==
    BudgetReturned => LeadingSystem(bgMessages) \subseteq Positions(bgOut)

C25_Idempotent ==
    BudgetReturned => ApplyMessageBudget(bgOut, bgBudget) = bgOut

\* a budgeting call returned with a message dropped and another clipped
C25_Witness ==
    /\ BudgetReturned
    /\ Len(bgOut) < Len(bgMessages)
    /\ \E k \in 1..Len(bgOut) : bgOut[k].content # bgMessages[bgOut[k].pos].content
    /\ bgBudget.MaxTotalChars > 0

\* C23: ApplyMessageBudget leaves the caller's slice and the content of each
\* of its messages as they were, whatever it returns.
C23_InputUnchanged ==
    [][bgMessages' = bgMessages]_vars

\* the call returned a clipped copy of a message of the input
C23_Witness ==
    /\ BudgetReturned
    /\ \E k \in 1..Len(bgOut) :
          /\ bgOut[k].content # bgMessages[bgOut[k].pos].content
          /\ bgMessages[bgOut[k].pos].content = Text(MaxContent)

\* what the total-size pass sees of the input: the messages after the
\* per-message clipping
Clipped == ClipEach(bgMessages, bgBudget)

\* the characters max_total_chars leaves to the non-system messages
Remaining ==
    Max(bgBudget.MaxTotalChars - sumMessageChars(KeepAt(Clipped, SystemIdx(Clipped), 1)), 0)

OverTotal ==
    bgBudget.MaxTotalChars > 0 /\ sumMessageChars(Clipped) > bgBudget.MaxTotalChars

RECURSIVE SumOver(_, _)
SumOver(f, S) ==
    IF S = {} THEN 0
    ELSE LET x == CHOOSE y \in S : TRUE IN f[x] + SumOver(f, S \ {x})

\* publisher p returns from its call in this step
PubReturns(p) == pubPc[p] = "locked" /\ pubPc'[p] = "idle"

\* C26: a publisher that holds the read lock can always finish its call,
\* whatever the buffer holds; with a full buffer and the bus open the call
\* returns with the buffer as it was and the message handed to nobody; the
\* buffer never exceeds its capacity.
C26_PublishNeverBlocks ==
    /\ [](\A p \in Publishers : pubPc[p] = "locked" => ENABLED PubSelect(p))
    /\ [](Len(busBuf) <= BusCap)
    /\ [][\A p \in Publishers :
            (PubReturns(p) /\ ~busClosed /\ Len(busBuf) = BusCap) =>
                (busBuf' = busBuf /\ csCall' = csCall /\ busLast' = busLast)]_vars

\* with no consumer and the bus open, the publishers made more calls than
\* the buffer has room for and all of them returned
C26_Witness ==
    /\ ~busClosed
    /\ busOnce = "fresh"
    /\ csPc = "idle"
    /\ busLast = [p \in Publishers |-> 0]
    /\ \A p \in Publishers : pubPc[p] = "idle"
    /\ Len(busBuf) = BusCap
    /\ SumOver(pubSeq, Publishers) > BusCap

\* C27: no call panics; once a call of Close has returned the bus stays
\* closed, further calls of Close change nothing, and a Publish call enqueues
\* nothing and hands its message to nobody.
C27_CloseOnceThenNoOp ==
    /\ [](~busPanic)
    /\ [](busCloseReturned => (busClosed /\ busDone /\ busOnce = "done" /\ busWriter = "none"))
    /\ [][busCloseReturned =>
            /\ Len(busBuf') <= Len(busBuf)
            /\ csCall'.by = "msg" => csCall.by = "msg"]_vars

\* Close has returned to both callers, and both calls of publisher 1 left
\* nothing in the buffer and nothing with the consumer
C27_Witness ==
    /\ busCloseReturned
    /\ \A k \in Closers : clPc[k] = "idle"
    /\ pubSeq[1] = MaxPublish
    /\ pubPc[1] = "idle"
    /\ pubSeq[2] = 0
    /\ busBuf = << >>
    /\ busLast[1] = 0

\* C28: a consumer is parked only while no message is buffered, the bus is
\* open and its context is live; closing the bus or cancelling the context
\* wakes a parked consumer, which returns ok=false; a call made after Close
\* has returned returns ok=false.
C28_ConsumeBlocksOnlyUntil ==
    /\ [](csPc = "parked" => (busBuf = << >> /\ ~busDone /\ ~csCtxDone))
    /\ [](csPc = "woken" => ENABLED CsReturn)
    /\ []((csRet.by # "none" /\ csRet.afterClose) => ~csRet.ok)
    /\ []((csRet.parked /\ csRet.by \in {"done", "ctx"}) => ~csRet.ok)
    /\ [][(csPc = "parked" /\ ((busDone' /\ ~busDone) \/ (csCtxDone' /\ ~csCtxDone))) =>
            (csPc' = "woken" /\ csCall'.by \in {"done", "ctx"})]_vars

\* a parked consumer was released by Close and returned ok=false
C28_Witness ==
    /\ csRet.parked
    /\ csRet.by = "done"
    /\ ~csRet.ok
    /\ ~csCtxDone

\* the messages of publisher p in buf, oldest first
RECURSIVE SeqsOf(_, _)
SeqsOf(buf, p) ==
    IF buf = << >> THEN << >>
    ELSE (IF PublisherOf(Head(buf)) = p THEN << SeqOf(Head(buf)) >> ELSE << >>)
             \o SeqsOf(Tail(buf), p)

\* C29: the messages of one publisher are received in the order of its
\* Publish calls: each received message is newer than the publisher's last
\* received one, and the buffer holds each publisher's messages oldest first.
C29_PerPublisherFIFO ==
    /\ [](\A p \in Publishers :
            LET q == SeqsOf(busBuf, p) IN
            /\ \A i \in 1..Len(q) : q[i] > busLast[p]
            /\ \A i, j \in 1..Len(q) : i < j => q[i] < q[j])
    /\ [][\A p \in Publishers : busLast'[p] # busLast[p] => busLast'[p] > busLast[p]]_vars

\* every message of publisher 1 and a message of publisher 2 were received
C29_Witness ==
    /\ busLast[1] = MaxPublish
    /\ busLast[2] >= 1
    /\ csRet.ok

(***************************************************************************)
(* Cancellation of a batch before a worker holds a semaphore slot.         *)
(***************************************************************************)
\* the message the cancellation case of the worker's select stores
CtxErrorMessage(i) == ToolResultMessage(toolCalls[i].id, <<"Error", "context canceled">>)

\* the workers that left the select without a semaphore slot
LeftWithoutSlot == { i \in 1..n : ~acquired[i] /\ wPc[i] \in {"deferred", "signal", "exit"} }

StartedOnce == Len(snLoops) = 1

\* position of loop goroutine l, "unborn" before its start
LoopPc(l) == IF l \in 1..Len(snLoops) THEN snLoops[l].pc ELSE "unborn"

\* sn.timer is armed
TimerArmed == snTimer # 0 /\ snTimers[snTimer].armed

C32_NoPanicUnderConcurrentUse == snPanic = "none"

\* loop goroutine l publishes a status message in this step
Publishes(l) == LoopPc(l) = "publish" /\ LoopPc(l)' = "enter"

\* C33: a status message is published only when a full delay has elapsed
\* since the most recent start, reset or previous status message.
C33_PublishOnlyAfterFullDelay ==
    [][StartedOnce => \A l \in 1..Len(snLoops) :
          Publishes(l) => snNow - snLast >= snDelay]_vars

\* C39: once stop() has returned, no status message is published.
C39_NoPublishAfterStop ==
    [][(StartedOnce /\ snStopped) => \A l \in 1..Len(snLoops) : ~Publishes(l)]_vars

(***************************************************************************)
(* Properties of the AgentLoop.                                            *)
(***************************************************************************)
\* the summarization goroutines of a session that have not ended
Summarizations(key) == { g \in 1..Len(agSumm) : agSumm[g].key = key }

\* maybeSummarize runs in this step
Triggers == agPc = "summarize" /\ agPc' = "respond"

\* C34: at most one summarization of a session runs at any time: the session's
\* key is in al.summarizing exactly while its summarization goroutine lives, a
\* trigger that finds the key starts nothing, and a trigger that does not
\* find it (none running, or the last one ended) may start one.
C34_OneSummarizationPerSession ==
    /\ [](\A key \in Sessions :
            /\ Cardinality(Summarizations(key)) <= 1
            /\ key \in agSummarizing <=> Summarizations(key) # {})
    /\ [][(Triggers /\ agOpts.SessionKey \in agSummarizing)
             => UNCHANGED << agSumm, agSummarizing, agSumStarted >>]_vars
    /\ [][(Triggers /\ agOpts.SessionKey \notin agSummarizing /\ agOpts.EnableSummary
                    /\ ShouldSummarize(agSessions[agOpts.SessionKey]))
             => agSumm' = Append(agSumm, NewSummarization(agOpts.SessionKey))]_vars

\* maybeSummarize has just found the session over its threshold while the
\* session's summarization was waiting for its summary call, and started none
C34_Witness ==
    /\ agPc = "respond"
    /\ agOpts.EnableSummary
    /\ ~agErr
    /\ ShouldSummarize(agSessions[agOpts.SessionKey])
    /\ Cardinality(Summarizations(agOpts.SessionKey)) = 1
    /\ \A g \in Summarizations(agOpts.SessionKey) : agSumm[g].pc = "calling"

\* the inbound message is a progress-like report of a subagent
Internal ==
    /\ agMsg.channel = "system"
    /\ IsSubagent(agMsg.sender)
    /\ agMsg.event \in InternalEvents

\* C35: an inbound subagent message whose event is progress, note or warning
\* is stored as an assistant message in the origin session, never reaches
\* runAgentLoop, and no outbound message is published for it.
C35_InternalReportsStayInternal ==
    /\ [](Internal => /\ agOut = 0
                       /\ agOpts = NoOpts
                       /\ agPc \in {"process", "respond", "responded"}
                       /\ Response = "")
    /\ [][(Internal /\ agPc = "process" /\ agPc' # "process")
             => agSessions' = AddMessage(agSessions, agMsg.session, "assistant", agNextId)]_vars

\* Run has finished with a subagent's progress report: the note is the newest
\* message of the origin session
C35_Witness ==
    /\ Internal
    /\ agPc = "responded"
    /\ agOut = 0
    /\ agSessions[agMsg.session] # << >>
    /\ agSessions[agMsg.session][Len(agSessions[agMsg.session])] =
           SessionMessage("assistant", agNextId - 1)

\* runAgentLoop has returned without error
TurnEnded == agPc \in {"respond", "responded"} /\ agOpts # NoOpts /\ ~agErr

\* C37: a turn that ends without error has written exactly one user message,
\* before its first provider call, and exactly one final assistant message,
\* whose content is default_response when the final content was empty.
C37_OneUserOneFinalMessage ==
    /\ [](TurnEnded => /\ agWrites.user = 1
                        /\ agWrites.final = 1
                        /\ agWrites.calls >= 1
                        /\ agWrites.userBeforeCall
                        /\ agFinal # "")
    /\ [](agWrites.user <= 1 /\ agWrites.final <= 1)
    /\ [][(agPc = "finish" /\ agPc' # "finish") =>
            /\ agFinal' = IF agFinal = "" THEN agOpts.DefaultResponse ELSE agFinal
            /\ agSessions' = AddMessage(agSessions, agOpts.SessionKey, "assistant", agNextId)]_vars
    /\ [][(agPc = "runAgentLoop" /\ agPc' # "runAgentLoop") =>
            /\ agWrites.calls = 0
            /\ agSessions' = AddMessage(agSessions, agOpts.SessionKey, "user", agNextId)]_vars

\* a turn ended whose provider answered with tool calls and then, at the
\* iteration limit, with an empty summary: the default response was saved
C37_Witness ==
    /\ TurnEnded
    /\ agWrites.calls = 2
    /\ agFinal = agOpts.DefaultResponse
    /\ agWrites.user = 1
    /\ agWrites.final = 1

Ids(history) == { history[i].id : i \in 1..Len(history) }

\* C38: when a summarization truncates the history, every message it removes
\* was part of the history snapshot it summarized.
C38_TruncationRemovesOnlySnapshot ==
    [][\A g \in 1..Len(agSumm) :
          agSumm[g].pc = "calling" =>
              (Ids(agSessions[agSumm[g].key]) \ Ids(agSessions'[agSumm[g].key]))
                  \subseteq Ids(agSumm[g].snap)]_vars

(***************************************************************************)
(* Properties of the tool execution policy.                                *)
(***************************************************************************)
PolicyChecked == plErr # "unchecked"

\* the name the last check looked up in the policy's sets
CheckedName == ToLower(TrimSpace(plToolName))

\* C36 as stated: with the policy enabled a tool whose trimmed, lower-cased
\* name is in deny is blocked with "blocked by policy" even if it is in allow,
\* every other tool not in a non-empty allow set is blocked with "not allowed
\* by policy", and with the policy disabled no tool is blocked.
C36_PolicyDecisionAsStated ==
    PolicyChecked =>
        /\ plPolicy.Enabled /\ CheckedName \in plPolicy.Deny
              => plErr = "blocked by policy"
        /\ plPolicy.Enabled /\ CheckedName \notin plPolicy.Deny
                            /\ plPolicy.Allow # {} /\ CheckedName \notin plPolicy.Allow
              => plErr = "not allowed by policy"
        /\ ~plPolicy.Enabled => plErr = "nil"

\* C36: with the policy enabled a tool whose trimmed, lower-cased name is in
\* deny is blocked with "blocked by policy" even if it is in allow; a name that
\* is blank after trimming is blocked with "tool name is empty" whatever the
\* allow set holds; every other tool not in a non-empty allow set is blocked
\* with "not allowed by policy", and a tool in the allow set or checked against
\* an empty one runs; with the policy disabled no tool is blocked.
C36_PolicyDecision ==
    PolicyChecked =>
        /\ plPolicy.Enabled /\ CheckedName \in plPolicy.Deny
              => plErr = "blocked by policy"
        /\ plPolicy.Enabled /\ CheckedName = << >>
              => plErr = "tool name is empty"
        /\ plPolicy.Enabled /\ CheckedName # << >> /\ CheckedName \notin plPolicy.Deny
                            /\ plPolicy.Allow # {} /\ CheckedName \notin plPolicy.Allow
              => plErr = "not allowed by policy"
        /\ plPolicy.Enabled /\ CheckedName # << >> /\ CheckedName \notin plPolicy.Deny
                            /\ (plPolicy.Allow = {} \/ CheckedName \in plPolicy.Allow)
              => plErr = "nil"
        /\ ~plPolicy.Enabled => plErr = "nil"

\* a tool named in both sets, written with an upper-case letter and a space,
\* was blocked by the deny set
C36_Witness ==
    /\ plPolicy.Enabled
    /\ plToolName # CheckedName
    /\ CheckedName \in plPolicy.Deny
    /\ CheckedName \in plPolicy.Allow
    /\ plErr = "blocked by policy"

(***************************************************************************)
(* Termination of the batch executor.                                      *)
(***************************************************************************)
WorkerPc(i) == IF i \in DOMAIN wPc THEN wPc[i] ELSE "none"

\* C40: when every started Execute returns or panics, ExecuteToolCalls
\* eventually returns, whatever the batch size, max_parallel and the moment
\* ctx is cancelled: a worker's send on the completion channel never blocks,
\* and at the return every worker has finished, every slot of the semaphore is
\* free again and the reporter has received every signal and closed
\* progressDone.
C40_BatchEventuallyReturns ==
    /\ <>(exPc = "returned")
    /\ [](\A i \in 1..MaxCalls : WorkerPc(i) = "signal" => Len(doneCh) < n)
    /\ [](exPc = "returned" /\ n > 0 =>
             /\ \A i \in 1..n : wPc[i] = "exit"
             /\ rpPc = "closed"
             /\ doneCh = << >>
             /\ sem = 0)

\* a full batch with one slot returned with ctx cancelled: some workers ran
\* their tool, the others left the wait by the cancellation
C40_Witness ==
    /\ exPc = "returned"
    /\ n = MaxCalls
    /\ ParallelLimit = 1
    /\ exCtxDone
    /\ \E i \in 1..n : acquired[i]
    /\ \E i \in 1..n : ~acquired[i]


====
